---------------------------- MODULE Spec2Model ----------------------------
(***************************************************************************)
(* Lagwell pump-test explorer (docs/app.js): the fit click handler, the    *)
(* model selector, the metadata loader, the CSV parser and the result      *)
(* assembler, together with the solver entry point fit_with_ci that the    *)
(* page calls through Pyodide (py/solver.py, modelled from its contract).  *)
(***************************************************************************)
EXTENDS Integers, Sequences, FiniteSets, TLC

(***************************************************************************)
(* JavaScript values.  Finite numbers are integers; NaN, the infinities,   *)
(* null and undefined are sentinels that no finite number of the model     *)
(* equals.                                                                 *)
(***************************************************************************)
NaN == 9999
PosInf == 9998
NegInf == 9997
JsNull == 9996
JsUndefined == 9995

IsFinite(x) == x \notin {NaN, PosInf, NegInf, JsNull, JsUndefined}

(* parseFloat on a trimmed CSV cell or form field.  "undefined" is the     *)
(* value of row[idx] when the row has fewer cells than the header.         *)
ParseFloat(tok) ==
  CASE tok = "0" -> 0
    [] tok = "1" -> 1
    [] tok = "2" -> 2
    [] tok = "3" -> 3
    [] tok = "-1" -> 0 - 1
    [] tok = "Infinity" -> PosInf
    [] OTHER -> NaN

(***************************************************************************)
(* Header cells are sequences of characters so that the regular            *)
(* expressions of parseCsvOrText are evaluated as the code evaluates them. *)
(***************************************************************************)
HdrTime == <<"t", "i", "m", "e", "_", "m", "i", "n">>
HdrDraw == <<"d", "r", "a", "w", "d", "o", "w", "n", "_", "m">>
HdrR == <<"r", "_", "m">>
HdrQ == <<"Q", "_", "m", "3", "p", "h">>
HdrT == <<"t">>

ToLower(c) == IF c = "Q" THEN "q" ELSE IF c = "R" THEN "r" ELSE c

(* h contains the literal pat, ignoring case (a /pat/i test with a literal *)
(* pattern that has no anchors).                                           *)
ContainsI(h, pat) ==
  \E off \in 0..(Len(h) - Len(pat)) :
    \A k \in 1..Len(pat) : ToLower(h[off + k]) = ToLower(pat[k])

(* headers.findIndex(test): zero-based index of the first match, else -1   *)
FindIndex(headers, pat) ==
  IF \E i \in 1..Len(headers) : ContainsI(headers[i], pat)
  THEN (CHOOSE i \in 1..Len(headers) :
          /\ ContainsI(headers[i], pat)
          /\ \A k \in 1..(i - 1) : ~ContainsI(headers[k], pat)) - 1
  ELSE 0 - 1

(* row[idx] for a zero-based idx                                           *)
CellAt(row, idx) ==
  IF idx >= 0 /\ idx + 1 <= Len(row) THEN row[idx + 1] ELSE "undefined"

(* lines.filter(Boolean): empty lines are dropped                          *)
RECURSIVE FilterNonEmpty(_)
FilterNonEmpty(ls) ==
  IF ls = <<>> THEN <<>>
  ELSE IF Head(ls) = <<>> THEN FilterNonEmpty(Tail(ls))
       ELSE <<Head(ls)>> \o FilterNonEmpty(Tail(ls))

(* The row loop with the time and the drawdown of a row kept one without   *)
(* the other.                                                              *)
RECURSIVE ParseRowsUnpaired(_, _, _, _, _, _)
ParseRowsUnpaired(rows, idxT, idxS, idxR, idxQ, acc) ==
  IF rows = <<>> THEN acc
  ELSE
    LET row == Head(rows)
        t == ParseFloat(CellAt(row, idxT))
        s == ParseFloat(CellAt(row, idxS))
        next == IF row[1] = "" THEN acc
                ELSE [acc EXCEPT
                        !.times = IF IsFinite(t) THEN Append(@, t) ELSE @,
                        !.draws = IF IsFinite(s) THEN Append(@, s) ELSE @]
    IN ParseRowsUnpaired(Tail(rows), idxT, idxS, idxR, idxQ, next)

(* One iteration of the row loop of parseCsvOrText, folded over the rows.  *)
RECURSIVE ParseRows(_, _, _, _, _, _)
ParseRows(rows, idxT, idxS, idxR, idxQ, acc) ==
  IF rows = <<>> THEN acc
  ELSE
    LET row == Head(rows)
        t == ParseFloat(CellAt(row, idxT))
        s == ParseFloat(CellAt(row, idxS))
        skip == row[1] = "" \/ ~IsFinite(t) \/ ~IsFinite(s)
        nr == IF idxR # 0 - 1 /\ ~IsFinite(acc.r)
              THEN ParseFloat(CellAt(row, idxR)) ELSE acc.r
        nq == IF idxQ # 0 - 1 /\ ~IsFinite(acc.Q)
              THEN ParseFloat(CellAt(row, idxQ)) ELSE acc.Q
        next == IF skip THEN acc
                ELSE [times |-> Append(acc.times, t),
                      draws |-> Append(acc.draws, s),
                      r |-> nr, Q |-> nq]
    IN ParseRows(Tail(rows), idxT, idxS, idxR, idxQ, next)

(* parseCsvOrText(txt, defaultR, defaultQ).  txt is the sequence of lines, *)
(* each line the sequence of its trimmed cells; the first line is the      *)
(* header, whose cells are character sequences.                            *)
parseCsvOrText(txt, defaultR, defaultQ) ==
  LET lines == FilterNonEmpty(txt) IN
  IF lines = <<>>
  THEN [ok |-> TRUE, times |-> <<>>, draws |-> <<>>, r |-> defaultR, Q |-> defaultQ]
  ELSE
    LET headers == Head(lines)
        idxT == FindIndex(headers, HdrTime)
        idxS == FindIndex(headers, HdrDraw)
        idxR == FindIndex(headers, <<"r">>)
        idxQ == FindIndex(headers, <<"Q">>)
    IN
    IF idxT = 0 - 1 \/ idxS = 0 - 1
    THEN [ok |-> FALSE, times |-> <<>>, draws |-> <<>>, r |-> defaultR, Q |-> defaultQ]
    ELSE
      LET r0 == IF IsFinite(defaultR) THEN defaultR ELSE NaN
          q0 == IF IsFinite(defaultQ) THEN defaultQ ELSE NaN
          acc == ParseRows(Tail(lines), idxT, idxS, idxR, idxQ,
                           [times |-> <<>>, draws |-> <<>>, r |-> r0, Q |-> q0])
      IN [ok |-> TRUE, times |-> acc.times, draws |-> acc.draws,
          r |-> IF IsFinite(acc.r) THEN acc.r ELSE defaultR,
          Q |-> IF IsFinite(acc.Q) THEN acc.Q ELSE defaultQ]

(***************************************************************************)
(* Model variants and their declared parameter keys (models.json; the keys *)
(* are the ones calculateBootstrapTraces reads from a fit's samples).      *)
(***************************************************************************)
KnownModels == {"theis", "lagging"}

ModelParamKeys(m) ==
  IF m = "theis" THEN {"T", "S"}
  ELSE IF m = "lagging" THEN {"T", "S", "tau_q", "tau_s"}
  ELSE {}

(* getModelParamKeySet(modelMeta): modelMeta is the id of the model whose  *)
(* metadata object it is, or "null".                                       *)
getModelParamKeySet(modelMeta) ==
  IF modelMeta = "null" THEN {} ELSE ModelParamKeys(modelMeta)

(***************************************************************************)
(* Small numeric helpers.                                                  *)
(***************************************************************************)
RECURSIVE SumSeq(_)
SumSeq(s) == IF s = <<>> THEN 0 ELSE Head(s) + SumSeq(Tail(s))

MinOf(S) == CHOOSE x \in S : \A y \in S : x <= y
MaxOf(S) == CHOOSE x \in S : \A y \in S : x >= y
Range(s) == {s[i] : i \in 1..Len(s)}

(* insertion of x into an ascending sequence                               *)
RECURSIVE InsertSorted(_, _)
InsertSorted(x, s) ==
  IF s = <<>> THEN <<x>>
  ELSE IF x <= Head(s) THEN <<x>> \o s
       ELSE <<Head(s)>> \o InsertSorted(x, Tail(s))

RECURSIVE SortAsc(_)
SortAsc(s) == IF s = <<>> THEN <<>> ELSE InsertSorted(Head(s), SortAsc(Tail(s)))

(***************************************************************************)
(* The solver contract: fit and fit_with_ci of py/solver.py.               *)
(*                                                                         *)
(* A request is [times, draws, model_name, r, Q, conf, n_boot]; conf is in *)
(* percent.  Input errors and unknown models are raised before anything is *)
(* computed.  The point estimate is a deterministic function of the data;  *)
(* the bootstrap outcome depends on the random resamples and is therefore  *)
(* a set of possible results.                                              *)
(***************************************************************************)
MinObsToConverge == 2
MinSuccessPercent == 10

(* the input check without the conditions on r and Q                       *)
ValidInputAnyGeometry(req) ==
  /\ Len(req.times) >= 1
  /\ Len(req.times) = Len(req.draws)
  /\ \A i \in 1..Len(req.times) : IsFinite(req.times[i]) /\ req.times[i] > 0

(* the InputError conditions: an empty or mismatched observation set, a    *)
(* non-positive time, radius or pumping rate                               *)
ValidInput(req) ==
  /\ Len(req.times) >= 1
  /\ Len(req.times) = Len(req.draws)
  /\ \A i \in 1..Len(req.times) : IsFinite(req.times[i]) /\ req.times[i] > 0
  /\ IsFinite(req.r) /\ req.r > 0
  /\ IsFinite(req.Q) /\ req.Q > 0

(* the point estimator converges unless the data are degenerate            *)
PointConverges(times, draws) == Len(times) >= MinObsToConverge

PointEstimate(times, draws) == SumSeq(draws)

(* fit(times, draws, model, r, Q, priors): params, metrics, fitted curve   *)
fit(times, draws, model) ==
  IF PointConverges(times, draws)
  THEN [status |-> "ok",
        params |-> [k \in ModelParamKeys(model) |-> PointEstimate(times, draws)],
        metrics |-> [rmse |-> 0, r2 |-> 1],
        fitted |-> << <<MinOf(Range(times)), PointEstimate(times, draws)>>,
                      <<MaxOf(Range(times)), PointEstimate(times, draws)>> >>]
  ELSE [status |-> "failed",
        params |-> [k \in ModelParamKeys(model) |-> NaN],
        metrics |-> [rmse |-> NaN, r2 |-> NaN],
        fitted |-> <<>>]

(* nearest-rank percentile of an ascending sequence, p in percent          *)
PercentileRank(n, p) ==
  LET k == (n * p + 99) \div 100 IN IF k < 1 THEN 1 ELSE IF k > n THEN n ELSE k

Percentile(sorted, p) == sorted[PercentileRank(Len(sorted), p)]

(* the percentiles read from the estimates in their order of completion    *)
ConfidenceIntervalUnsorted(samples, conf) ==
  LET lo == (100 - conf) \div 2
  IN <<Percentile(samples, lo), Percentile(samples, 100 - lo)>>

(* [(1-conf)/2, 1-(1-conf)/2] percentiles of the successful resamples      *)
ConfidenceInterval(samples, conf) ==
  LET sorted == SortAsc(samples)
      lo == (100 - conf) \div 2
  IN <<Percentile(sorted, lo), Percentile(sorted, 100 - lo)>>

(* only a bootstrap without any successful resample counted as too few    *)
TooFewSamplesOnlyNone(nSuccess, n_boot) == nSuccess = 0

(* too few successful resamples: fewer than MinSuccessPercent of n_boot    *)
TooFewSamples(nSuccess, n_boot) == nSuccess * 100 < n_boot * MinSuccessPercent

(* the result assembled from a point fit, the recorded resamples and the   *)
(* number of skipped resamples                                             *)
AssembleResult(point, model, conf, n_boot, samples, skipped) ==
  LET keys == ModelParamKeys(model)
      hasCi == n_boot > 0 /\ point.status = "ok" /\ ~TooFewSamples(Len(samples), n_boot)
      hasSamples == n_boot > 0 /\ point.status = "ok" /\ Len(samples) > 0
  IN [status |-> point.status,
      params |-> point.params,
      metrics |-> point.metrics,
      fitted |-> point.fitted,
      ci |-> [k \in (IF hasCi THEN keys ELSE {}) |-> ConfidenceInterval(samples, conf)],
      samples |-> [k \in (IF hasSamples THEN keys ELSE {}) |-> samples],
      nSuccess |-> Len(samples),
      nSkipped |-> skipped]

(***************************************************************************)
(* Result assembly in the page: filterParamsForModel and populateResult.   *)
(***************************************************************************)
Restrict(f, S) == [k \in (DOMAIN f) \cap S |-> f[k]]

(* a filter that passes the solver's ci object through                     *)
filterParamsForModelKeepCi(rawParams, rawCi, modelMeta, rawSamples) ==
  LET allowed == getModelParamKeySet(modelMeta) IN
  IF allowed = {}
  THEN [params |-> rawParams, ci |-> rawCi, samples |-> rawSamples]
  ELSE [params |-> Restrict(rawParams, allowed),
        ci |-> rawCi,
        samples |-> Restrict(rawSamples, allowed)]

(* filterParamsForModel(rawParams, rawCi, modelMeta, rawSamples)           *)
filterParamsForModel(rawParams, rawCi, modelMeta, rawSamples) ==
  LET allowed == getModelParamKeySet(modelMeta) IN
  IF allowed = {}
  THEN [params |-> rawParams, ci |-> rawCi, samples |-> rawSamples]
  ELSE [params |-> Restrict(rawParams, allowed),
        ci |-> Restrict(rawCi, allowed \cap DOMAIN rawParams),
        samples |-> Restrict(rawSamples, allowed)]

(* timesArr.map((t, idx) => [t, drawsArr[idx]])                            *)
ObservedCurve(times, draws) ==
  [i \in 1..Len(times) |-> <<times[i], IF i <= Len(draws) THEN draws[i] ELSE NaN>>]

(* populateResult(target, fitResultArray, nBootValue, context), reading    *)
(* the global currentModelMeta (meta).                                     *)
populateResult(target, res, nBootValue, context, meta) ==
  LET f == filterParamsForModel(res.params, res.ci, meta, res.samples) IN
  [target EXCEPT
     !.params = f.params,
     !.metrics = res.metrics,
     !.ci = f.ci,
     !.samples = f.samples,
     !.curves = [observed |-> ObservedCurve(context.times, context.draws),
                 fitted |-> res.fitted],
     !.model = context.model,
     !.r = context.r,
     !.Q = context.Q,
     !.conf = context.conf,
     !.nBoot = nBootValue,
     !.modelLabel = IF meta # "null" THEN <<"name", meta>> ELSE <<"upper", context.model>>,
     !.raw = res]

(* an object literal that labels every run as the first                    *)
NewResultObjFirstLabel(label) ==
  [runLabel |-> 1, selected |-> TRUE,
   params |-> <<>>, metrics |-> <<>>, ci |-> <<>>, samples |-> <<>>,
   curves |-> <<>>, model |-> "", r |-> NaN, Q |-> NaN, conf |-> 0,
   nBoot |-> 0, modelLabel |-> <<>>, raw |-> <<>>]

(* the object literal created before the first populateResult              *)
NewResultObj(label) ==
  [runLabel |-> label, selected |-> TRUE,
   params |-> <<>>, metrics |-> <<>>, ci |-> <<>>, samples |-> <<>>,
   curves |-> <<>>, model |-> "", r |-> NaN, Q |-> NaN, conf |-> 0,
   nBoot |-> 0, modelLabel |-> <<>>, raw |-> <<>>]

(***************************************************************************)
(* The same two functions over a memory of objects (a sequence indexed by  *)
(* reference), which shows the objects they write to: an object is an      *)
(* input or a new one, and a field of the target holds a reference.        *)
(***************************************************************************)
(* a filter that deletes the keys that are not allowed from its arguments  *)
filterParamsForModelInPlace(mem, pParams, pCi, modelMeta, pSamples) ==
  LET f == filterParamsForModel(mem[pParams], mem[pCi], modelMeta, mem[pSamples]) IN
  [mem |-> [mem EXCEPT ![pParams] = f.params, ![pCi] = f.ci, ![pSamples] = f.samples],
   params |-> pParams, ci |-> pCi, samples |-> pSamples]

(* filterParamsForModel: with no allowed keys the arguments themselves are *)
(* returned, otherwise three new objects are filled                        *)
filterParamsForModelRefs(mem, pParams, pCi, modelMeta, pSamples) ==
  LET f == filterParamsForModel(mem[pParams], mem[pCi], modelMeta, mem[pSamples]) IN
  IF getModelParamKeySet(modelMeta) = {}
  THEN [mem |-> mem, params |-> pParams, ci |-> pCi, samples |-> pSamples]
  ELSE [mem |-> mem \o <<f.params, f.ci, f.samples>>,
        params |-> Len(mem) + 1, ci |-> Len(mem) + 2, samples |-> Len(mem) + 3]

(* populateResult: res and context hold references; the fields of the      *)
(* target are assigned, the observed curve is a new array, the metrics and *)
(* the fitted curve are the solver's own objects                           *)
populateResultRefs(mem, target, res, nBootValue, context, meta) ==
  LET f == filterParamsForModelRefs(mem, res.params, res.ci, meta, res.samples)
      m1 == Append(f.mem, ObservedCurve(mem[context.times], mem[context.draws]))
  IN [m1 EXCEPT ![target] =
        [@ EXCEPT !.params = f.params,
                  !.metrics = res.metrics,
                  !.ci = f.ci,
                  !.samples = f.samples,
                  !.curves = [observed |-> Len(m1), fitted |-> res.fitted],
                  !.model = context.model,
                  !.r = context.r,
                  !.Q = context.Q,
                  !.conf = context.conf,
                  !.nBoot = nBootValue,
                  !.modelLabel = IF meta # "null" THEN <<"name", meta>>
                                 ELSE <<"upper", context.model>>]]

(* the drawdown function calculateBootstrapTraces redraws a fit with       *)
drawdownName(baseFit) ==
  IF baseFit.model = "theis" THEN "theis_drawdown" ELSE "lagging_drawdown_time"

(* the CI cell renderParams shows for parameter key                        *)
RenderCiPair(result, key) ==
  IF key \in DOMAIN result.ci /\ Len(result.ci[key]) = 2
  THEN <<"pair", result.ci[key][1], result.ci[key][2]>>
  ELSE <<"dash">>

(***************************************************************************)
(* Number formatting and the metrics panel.  A formatted number is the     *)
(* method that prints it with its arguments; the placeholders are the dash *)
(* of fmtExp and fmtDec and the hyphen of formatNumber.                    *)
(***************************************************************************)
Abs(x) == IF x < 0 THEN 0 - x ELSE x

(* absVal > 1e4; no nonzero integer is below 1e-3                          *)
ExpAbove == 10000

(* a formatter that tests only value == null                               *)
fmtExpNullOnly(value) ==
  IF value \in {JsNull, JsUndefined} THEN <<"dash">>
  ELSE IF Abs(value) # 0 /\ Abs(value) > ExpAbove THEN <<"toExponential", value, 3>>
  ELSE <<"toFixed", value, 4>>

fmtExp(value) ==
  IF value \in {JsNull, JsUndefined} \/ ~IsFinite(value) THEN <<"dash">>
  ELSE IF Abs(value) # 0 /\ Abs(value) > ExpAbove THEN <<"toExponential", value, 3>>
  ELSE <<"toFixed", value, 4>>

fmtDec(value, digits) ==
  IF value \in {JsNull, JsUndefined} \/ ~IsFinite(value) THEN <<"dash">>
  ELSE <<"toFixed", value, digits>>

formatNumber(value, digits) ==
  IF value \in {JsNull, JsUndefined} \/ ~IsFinite(value) THEN <<"hyphen">>
  ELSE IF Abs(value) # 0 /\ Abs(value) > ExpAbove THEN <<"toExponential", value, digits>>
  ELSE <<"toFixed", value, digits>>

(* renderMetrics(result): the entries of the metrics panel, in order       *)
renderMetrics(result) ==
  (IF IsFinite(result.metrics.rmse)
   THEN <<[label |-> "RMSE", value |-> fmtExp(result.metrics.rmse)]>> ELSE <<>>)
  \o (IF IsFinite(result.metrics.r2)
      THEN <<[label |-> "R2", value |-> fmtDec(result.metrics.r2, 4)]>> ELSE <<>>)
  \o <<[label |-> "Confidence level", value |-> <<"percent", result.conf>>]>>
  \o (IF IsFinite(result.nBoot)
      THEN <<[label |-> "Bootstrap samples", value |-> <<"count", result.nBoot>>]>>
      ELSE <<>>)
  \o <<[label |-> "Runtime", value |-> <<"Pyodide (browser)">>]>>

(***************************************************************************)
(* calculateBootstrapTraces(baseFit).  throwing is the set of sample       *)
(* indices at which the drawdown call or the conversion of its curve       *)
(* throws.  The outcome lists the drawdown calls made, the sample curves   *)
(* kept and the traces returned; indices count from 1.                     *)
(***************************************************************************)
(* the cap on the sample indices, standing for the 50 of line 1404         *)
SampleCap == 2

(* the order of Object.entries(baseFit.samples)                            *)
KeyOrder == <<"T", "S", "tau_q", "tau_s">>

calculateBootstrapTraces(baseFit, pyodideReady, throwing) ==
  LET s == baseFit.samples
      validSamples == SelectSeq(KeyOrder, LAMBDA k : k \in DOMAIN s /\ Len(s[k]) > 0)
      none == [calls |-> <<>>, sampleCurves |-> <<>>, traces |-> <<>>]
  IN
  IF ~pyodideReady THEN none
  ELSE IF baseFit.curves.fitted = <<>> \/ validSamples = <<>> THEN none
  ELSE
    LET n0 == Len(s[validSamples[1]])
        limit == IF n0 < SampleCap THEN n0 ELSE SampleCap
        Skip(i) == \E n \in 1..Len(validSamples) :
                     LET values == s[validSamples[n]] IN
                     \/ i > Len(values)
                     \/ values[i] \in {JsNull, JsUndefined}
                     \/ values[i] = NaN
        paramSet(i, key) == IF key \in Range(validSamples) THEN s[key][i] ELSE JsUndefined
        Args(i) == IF baseFit.model = "theis"
                   THEN <<paramSet(i, "T"), paramSet(i, "S"), baseFit.r, baseFit.Q>>
                   ELSE <<paramSet(i, "T"), paramSet(i, "S"), paramSet(i, "tau_q"),
                          paramSet(i, "tau_s"), baseFit.r, baseFit.Q, 0>>
        tried == SelectSeq([i \in 1..limit |-> i], LAMBDA i : ~Skip(i))
        drawn == SelectSeq(tried, LAMBDA i : i \notin throwing)
    IN [calls |-> [n \in 1..Len(tried) |->
                     [index |-> tried[n], name |-> drawdownName(baseFit),
                      args |-> Args(tried[n])]],
        sampleCurves |-> drawn,
        traces |-> IF drawn = <<>> THEN <<>>
                   ELSE <<[name |-> "Bootstrap Samples", index |-> drawn[1]]>>]

(***************************************************************************)
(* Bounds of the model and the input alphabets.                            *)
(***************************************************************************)
MaxRows == 2
MaxSamples == 1
MaxHistory == 1
MaxFits == 2
MaxChartCalls == 3
MaxRenders == 2
MaxBoot == 3

DefaultNBoot == 100

(* the first call of a fit click given the bootstrap count of the second  *)
QuickNBootFromSelect == DefaultNBoot

(* n_boot of the first call of a fit click                                 *)
QuickNBoot == 0

SampleVals == {1, 2}
UiSampleVals == {1}
(* the values the change handler of the model selector may receive        *)
SelectOptions == {"theis", "lagging", "fractured"}

(***************************************************************************)
(* The stored session.  The controls are [r, Q, model, conf, nBoot, raw],  *)
(* each the value string of one form control; a payload is the parsed      *)
(* item of the session storage, present or not.                            *)
(***************************************************************************)
NoPayload == [present |-> FALSE]

(* saveSession: the object written to the storage                          *)
saveSession(c) ==
  [present |-> TRUE, r |-> c.r, Q |-> c.Q, model |-> c.model, conf |-> c.conf,
   nBoot |-> c.nBoot, raw |-> c.raw]

(* a loadSession that assigns the stored model name as it is               *)
loadSessionAsSaved(payload, c) ==
  IF ~payload.present THEN c
  ELSE [r |-> payload.r,
        Q |-> payload.Q,
        conf |-> IF payload.conf # "" THEN payload.conf ELSE c.conf,
        nBoot |-> IF payload.nBoot # "" THEN payload.nBoot ELSE c.nBoot,
        raw |-> payload.raw,
        model |-> IF payload.model # "" THEN payload.model ELSE c.model]

(* a loadSession that assigns every stored value, empty or not             *)
loadSessionAssigningEmpty(payload, c) ==
  IF ~payload.present THEN c
  ELSE [r |-> payload.r,
        Q |-> payload.Q,
        conf |-> payload.conf,
        nBoot |-> payload.nBoot,
        raw |-> payload.raw,
        model |-> IF payload.model = "fractured" THEN "lagging" ELSE payload.model]

(* loadSession, lines 97-118: the controls after the call, c being the     *)
(* controls before it                                                      *)
loadSession(payload, c) ==
  IF ~payload.present THEN c
  ELSE [r |-> payload.r,
        Q |-> payload.Q,
        conf |-> IF payload.conf # "" THEN payload.conf ELSE c.conf,
        nBoot |-> IF payload.nBoot # "" THEN payload.nBoot ELSE c.nBoot,
        raw |-> payload.raw,
        model |-> IF payload.model = "" THEN c.model
                  ELSE IF payload.model = "fractured" THEN "lagging"
                  ELSE payload.model]

(* the controls a session may have been saved from, "bogus" standing for   *)
(* any model name outside the closed set                                   *)
SessionControls ==
  [r : {"", "3"}, Q : {"3"}, model : {"", "theis", "lagging", "fractured", "bogus"},
   conf : {"", "0.95"}, nBoot : {"", "2"}, raw : {"", "text"}]

(* the controls of the page as its markup sets them, before loadSession    *)
MarkupControls ==
  [r : {""}, Q : {""}, model : {"theis", "lagging"}, conf : {"0.9"}, nBoot : {"100"},
   raw : {""}]

(* the selector's value when the page starts (lines 212-216): an option of *)
(* the page's markup or the name a stored session restored                 *)
InitialModels ==
  {loadSession(d, c).model :
     d \in {NoPayload} \cup {saveSession(x) : x \in SessionControls}, c \in MarkupControls}

(* parseInt(tok, 10)                                                       *)
ParseInt(tok) ==
  CASE tok = "0" -> 0
    [] tok = "2" -> 2
    [] tok = "100" -> 100
    [] OTHER -> NaN

(* parseInt(nBootSelect.value, 10) || 100                                  *)
ReadNBoot(tok) ==
  IF ParseInt(tok) = NaN \/ ParseInt(tok) = 0 THEN DefaultNBoot ELSE ParseInt(tok)

(* parseFloat(confSelect.value), in percent                                *)
ReadConf(tok) ==
  CASE tok = "0.95" -> 95
    [] tok = "0.9" -> 90
    [] OTHER -> NaN

Header2 == <<HdrTime, HdrDraw>>
Header4 == <<HdrTime, HdrDraw, HdrR, HdrQ>>
HeaderRev == <<HdrDraw, HdrTime>>
HeaderBad == <<HdrT, HdrDraw>>
HeaderRFirst == <<HdrR, HdrTime, HdrDraw>>

DataRows ==
  { <<"1", "1", "3", "2">>, <<"2", "3">>, <<"0", "1">>, <<"x", "1", "3">> }

SeqsUpTo(S, n) == UNION {[1..k -> S] : k \in 0..n}

(* every pasted text of the parser specification                           *)
AllTexts ==
  {<<>>} \cup
  {<<h>> \o rows : h \in {Header2, Header4, HeaderRev, HeaderBad, HeaderRFirst},
                   rows \in SeqsUpTo(DataRows, MaxRows)}

(* a form is the pasted text with the radius, pumping-rate, confidence and *)
(* bootstrap-count fields                                                  *)
FormFields ==
  { [r |-> "3", Q |-> "3", conf |-> "0.95", nBoot |-> "2"],
    [r |-> "3", Q |-> "3", conf |-> "0.9", nBoot |-> "0"],
    [r |-> "", Q |-> "3", conf |-> "0.95", nBoot |-> "2"],
    [r |-> "0", Q |-> "3", conf |-> "0.95", nBoot |-> "2"],
    [r |-> "3", Q |-> "", conf |-> "0.95", nBoot |-> "2"] }

AllForms ==
  {[raw |-> t, r |-> f.r, Q |-> f.Q, conf |-> f.conf, nBoot |-> f.nBoot] :
     t \in AllTexts, f \in FormFields}

(* the forms the page specification edits between                          *)
UiForms ==
  { [raw |-> <<>>, r |-> "3", Q |-> "3", conf |-> "0.95", nBoot |-> "2"],
    [raw |-> <<Header2, <<"1", "1">>, <<"2", "3">>>>, r |-> "3", Q |-> "3",
     conf |-> "0.95", nBoot |-> "2"] }

(* the resample estimates a bootstrap of n_boot resamples may record       *)
SampleSeqs(n_boot) ==
  SeqsUpTo(UiSampleVals, IF n_boot < MaxSamples THEN n_boot ELSE MaxSamples)

(* a solver that raises when the point fit does not converge               *)
SolverOutcomesRaising(req) ==
  IF ~ValidInput(req) THEN {[kind |-> "InputError"]}
  ELSE IF req.model_name \notin KnownModels THEN {[kind |-> "UnknownModelError"]}
  ELSE IF ~PointConverges(req.times, req.draws) THEN {[kind |-> "ConvergenceFailure"]}
  ELSE {[kind |-> "crash"]} \cup
       {[kind |-> "ok",
         res |-> AssembleResult(fit(req.times, req.draws, req.model_name),
                                req.model_name, req.conf, req.n_boot, smp,
                                req.n_boot - Len(smp))] :
          smp \in SampleSeqs(req.n_boot)}

(* what a call of fit_with_ci may do: raise, or return a result            *)
SolverOutcomes(req) ==
  IF ~ValidInput(req) THEN {[kind |-> "InputError"]}
  ELSE IF req.model_name \notin KnownModels THEN {[kind |-> "UnknownModelError"]}
  ELSE {[kind |-> "crash"]} \cup
       {[kind |-> "ok",
         res |-> AssembleResult(fit(req.times, req.draws, req.model_name),
                                req.model_name, req.conf, req.n_boot, smp,
                                req.n_boot - Len(smp))] :
          smp \in IF PointConverges(req.times, req.draws)
                  THEN SampleSeqs(req.n_boot) ELSE {<<>>}}

ErrorMessage(kind) ==
  CASE kind = "InputError" -> "InputError"
    [] kind = "UnknownModelError" -> "UnknownModelError"
    [] OTHER -> "PythonError"

(***************************************************************************)
(* State of the page.                                                      *)
(***************************************************************************)
VARIABLES
  modelSelectValue,        \* modelSelect.value
  lastModelSelection,
  lastValidModelSelection,
  modelsCache,             \* "null" or "loaded"
  currentModelMeta,        \* "null" or the id of the model whose metadata it is
  modelDetailsRenderToken,
  pendingRenders,          \* renderModelDetails calls awaiting the metadata fetch
  modelDetails,            \* what the details panel shows
  pyodideInstance,         \* TRUE once loadPyodide() has resolved
  packagesLoaded,          \* TRUE once loadPackage(['numpy','scipy']) has resolved
  solverLoaded,
  pyStatusReady,           \* pyStatus has the class 'ready'
  fitHistory,              \* sequence of result object references
  lastFit,                 \* window._lastFit: a reference, 0 for null
  objs,                    \* the result objects, by reference
  fitBtnDisabled,
  fitBtnLook,              \* is-loading class, aria-busy, textContent, dataset.originalLabel
  pdfBtnDisabled,
  pc,                      \* where the fit click handler is suspended
  ctx,                     \* the handler's locals
  calls,                   \* the fit_with_ci calls of the running handler
  liveProxies,             \* the Pyodide proxies created and not yet destroyed
  boot,                    \* the bootstrap loop inside fit_with_ci
  asm,                     \* the objects populateResult reads and writes, by reference
  session,                 \* the form controls and the stored session item
  chart,                   \* the chart element and the renderChart calls in flight
  view                     \* a value or result handed to the display code, and its output

selVars == <<modelSelectValue, lastModelSelection, lastValidModelSelection>>
metaVars == <<modelsCache, currentModelMeta, modelDetailsRenderToken, pendingRenders, modelDetails>>
pyVars == <<pyodideInstance, packagesLoaded, solverLoaded, pyStatusReady>>
histVars == <<fitHistory, lastFit, objs>>
handlerVars == <<fitBtnDisabled, fitBtnLook, pdfBtnDisabled, pc, ctx, calls, liveProxies>>
vars == <<selVars, metaVars, pyVars, histVars, handlerVars, boot, asm, view, session, chart>>

IdleCtx == [model |-> "", nBoot |-> 0, conf |-> 0, times |-> <<>>, draws |-> <<>>,
            r |-> NaN, Q |-> NaN, resultId |-> 0, err |-> "none", form |-> <<>>,
            trackedPyProxies |-> {}, resultHandles |-> {}, originalLabel |-> "",
            label |-> ""]

(* the button as the page's markup shows it: no originalLabel is stored    *)
InitialLook ==
  [isLoading |-> FALSE, ariaBusy |-> FALSE, textContent |-> "Fit model", originalLabel |-> ""]

(* lines 628-633 and the later progress texts: the button of a running     *)
(* handler whose last written text is c.label                              *)
BusyLook(c) ==
  [isLoading |-> TRUE, ariaBusy |-> TRUE, textContent |-> c.label,
   originalLabel |-> c.originalLabel]

(* a final block that leaves the progress text on the button               *)
RestoredLookKeepingText(look) ==
  [isLoading |-> FALSE, ariaBusy |-> FALSE, textContent |-> look.textContent,
   originalLabel |-> look.originalLabel]

(* lines 810-813: the class and the attribute are removed and the text is  *)
(* dataset.originalLabel || 'Fit model'                                    *)
RestoredLook(look) ==
  [isLoading |-> FALSE, ariaBusy |-> FALSE,
   textContent |-> IF look.originalLabel # "" THEN look.originalLabel ELSE "Fit model",
   originalLabel |-> look.originalLabel]

(* lines 710-711: timesProxy and drawsProxy, made by py.toPy               *)
ArgProxies == {"timesProxy", "drawsProxy"}

(* the proxies toJs({pyproxies: local}) makes while converting a result    *)
PyProxiesOf(handle) ==
  IF handle = "quickResultPy" THEN {"quickResult.pyproxies"} ELSE {"fullResult.pyproxies"}

(* a result handle and the proxies of its conversion                       *)
ProxiesOfResult(handle) == {handle} \cup PyProxiesOf(handle)

(* resultHandles.push(handle) and convertResult(handle), lines 657-662:    *)
(* the proxies of the conversion are pushed to trackedPyProxies            *)
convertResult(c, handle) ==
  [c EXCEPT !.resultHandles = @ \cup {handle},
            !.trackedPyProxies = @ \cup PyProxiesOf(handle)]

(* lines 638-655: every tracked proxy is destroyed                         *)
destroyTrackedProxies(live, c) == live \ c.trackedPyProxies

(* a finally block that forgets the result handles                         *)
innerFinallyKeepingHandles(live, c) ==
  (destroyTrackedProxies(live, c) \ {"fitPy"}) \ ArgProxies

(* the inner finally block, lines 783-803: the tracked proxies, the result *)
(* handles, fitPy, timesProxy and drawsProxy are destroyed                 *)
innerFinally(live, c) ==
  ((destroyTrackedProxies(live, c) \ c.resultHandles) \ {"fitPy"}) \ ArgProxies

(* the handler is inside its catch or finally block: it runs to its end    *)
(* before any other task of the page                                       *)
InHandlerExit == pc \in {"catch", "finally"}

IdleBoot == [pc |-> "idle"]

IdleAsm == [pc |-> "idle"]

IdleView == [pc |-> "idle"]

IdleSession == [pc |-> "idle"]

(* the chart element of the markup, no renderChart call made               *)
IdleChart ==
  [shown |-> [kind |-> "message", of |-> 0, extra |-> {}], hasPlot |-> "", calls |-> <<>>]

(* the result objects still referenced from the history, window._lastFit   *)
(* or a running handler                                                    *)
Live(o, hist, lf, rid) == Restrict(o, Range(hist) \cup {lf, rid})

FreshRef(o) == CHOOSE i \in 1..(Cardinality(DOMAIN o) + 1) : i \notin DOMAIN o

(* getSelectedFits()                                                       *)
SelectedFits(hist, o) == SelectSeq(hist, LAMBDA i : o[i].selected)

InitPage ==
  /\ modelSelectValue \in InitialModels
  /\ lastModelSelection = modelSelectValue
  /\ lastValidModelSelection = modelSelectValue
  /\ modelsCache = "null"
  /\ currentModelMeta = "null"
  /\ modelDetailsRenderToken = 1
  /\ pendingRenders = {[token |-> 1, modelId |-> modelSelectValue]}
  /\ modelDetails = "empty"
  /\ pyodideInstance = FALSE
  /\ packagesLoaded = FALSE
  /\ solverLoaded = FALSE
  /\ pyStatusReady = FALSE
  /\ fitHistory = <<>>
  /\ lastFit = 0
  /\ objs = <<>>
  /\ fitBtnDisabled = FALSE
  /\ fitBtnLook = InitialLook
  /\ pdfBtnDisabled = TRUE
  /\ pc = "idle"
  /\ ctx = IdleCtx
  /\ calls = <<>>
  /\ liveProxies = {}

Init == InitPage /\ boot = IdleBoot /\ asm = IdleAsm /\ view = IdleView /\ session = IdleSession /\ chart = IdleChart

(***************************************************************************)
(* Model metadata: loadModelMetadata and renderModelDetails.               *)
(***************************************************************************)
(* models?.[modelId] || null                                               *)
MetaOf(modelId) == IF modelId \in KnownModels THEN modelId ELSE "null"

DetailsOf(modelId) == IF modelId \in KnownModels THEN modelId ELSE "unavailable"

(* renderModelDetails(modelId) called from a handler.  With the metadata   *)
(* cached the continuation after `await loadModelMetadata()` runs before   *)
(* any other task; otherwise the call waits for its own fetch.             *)
RenderModelDetailsCall(modelId) ==
  /\ modelDetailsRenderToken' = modelDetailsRenderToken + 1
  /\ IF modelsCache = "loaded"
     THEN /\ currentModelMeta' = MetaOf(modelId)
          /\ modelDetails' = DetailsOf(modelId)
          /\ pendingRenders' = pendingRenders
     ELSE /\ pendingRenders' = pendingRenders \cup
                 {[token |-> modelDetailsRenderToken + 1, modelId |-> modelId]}
          /\ UNCHANGED <<currentModelMeta, modelDetails>>
  /\ UNCHANGED modelsCache

(* the fetch of models.json of one pending call resolves                   *)
MetaFetchDone ==
  \E p \in pendingRenders :
    /\ ~InHandlerExit
    /\ pendingRenders' = pendingRenders \ {p}
    /\ modelsCache' = "loaded"
    /\ IF p.token # modelDetailsRenderToken
       THEN UNCHANGED <<currentModelMeta, modelDetails>>
       ELSE /\ currentModelMeta' = MetaOf(p.modelId)
            /\ modelDetails' = DetailsOf(p.modelId)
    /\ UNCHANGED <<modelDetailsRenderToken, selVars, pyVars, histVars, handlerVars, boot, asm, view, session, chart>>

(* the fetch fails (network error or a non-ok response): the catch block   *)
(* writes the failure notice without looking at the token                  *)
MetaFetchFail ==
  \E p \in pendingRenders :
    /\ ~InHandlerExit
    /\ pendingRenders' = pendingRenders \ {p}
    /\ modelDetails' = "failed"
    /\ UNCHANGED <<modelsCache, currentModelMeta, modelDetailsRenderToken>>
    /\ UNCHANGED <<selVars, pyVars, histVars, handlerVars, boot, asm, view, session, chart>>

(***************************************************************************)
(* The model selector's change handler.                                    *)
(***************************************************************************)
(* a change handler that also records the selection as the fitted model    *)
ModelChangeTracking ==
  \E selected \in SelectOptions :
    /\ ~InHandlerExit
    /\ selected # modelSelectValue
    /\ modelDetailsRenderToken < MaxRenders
    /\ fitHistory' = <<>>
    /\ objs' = Live(objs, <<>>, lastFit, ctx.resultId)
    /\ IF selected = "fractured"
       THEN /\ modelSelectValue' = lastValidModelSelection
            /\ RenderModelDetailsCall(lastValidModelSelection)
            /\ UNCHANGED lastValidModelSelection
       ELSE /\ modelSelectValue' = selected
            /\ lastValidModelSelection' = selected
            /\ RenderModelDetailsCall(selected)
    /\ lastModelSelection' = modelSelectValue'
    /\ UNCHANGED <<lastFit, pyVars, handlerVars, boot, asm, view, session, chart>>

ModelChange ==
  \E selected \in SelectOptions :
    /\ ~InHandlerExit
    /\ selected # modelSelectValue
    /\ modelDetailsRenderToken < MaxRenders
    /\ fitHistory' = <<>>
    /\ objs' = Live(objs, <<>>, lastFit, ctx.resultId)
    /\ IF selected = "fractured"
       THEN /\ modelSelectValue' = lastValidModelSelection
            /\ RenderModelDetailsCall(lastValidModelSelection)
            /\ UNCHANGED lastValidModelSelection
       ELSE /\ modelSelectValue' = selected
            /\ lastValidModelSelection' = selected
            /\ RenderModelDetailsCall(selected)
    /\ UNCHANGED <<lastModelSelection, lastFit, pyVars, handlerVars, boot, asm, view, session, chart>>

(***************************************************************************)
(* Clear history.  The button is enabled while the history is not empty    *)
(* (renderFitHistory runs after every change of fitHistory).               *)
(***************************************************************************)
ClearHistory ==
  /\ ~InHandlerExit
  /\ fitHistory # <<>>
  /\ fitHistory' = <<>>
  /\ lastFit' = 0
  /\ objs' = Live(objs, <<>>, 0, ctx.resultId)
  /\ pdfBtnDisabled' = TRUE
  /\ UNCHANGED <<selVars, metaVars, pyVars, fitBtnDisabled, fitBtnLook, pc, ctx, calls, liveProxies, boot, asm, view, session, chart>>

(***************************************************************************)
(* The fit button's click handler.  Each action is one run of the handler  *)
(* from one await to the next; the catch and finally blocks are entered in *)
(* the step that fails or completes and left by HandlerFinally.            *)
(***************************************************************************)
(* a catch block that re-enables the button                                *)
HandlerCatchEnabling(msg, c, o, hist, lf) ==
  /\ pc' = "catch"
  /\ ctx' = [c EXCEPT !.err = msg]
  /\ fitBtnDisabled' = FALSE
  /\ fitBtnLook' = BusyLook(c)
  /\ objs' = Live(o, hist, lf, c.resultId)

(* the outer catch block: showErrorToast(err.message)                      *)
HandlerCatch(msg, c, o, hist, lf) ==
  /\ pc' = "catch"
  /\ ctx' = [c EXCEPT !.err = msg]
  /\ fitBtnDisabled' = TRUE
  /\ fitBtnLook' = BusyLook(c)
  /\ objs' = Live(o, hist, lf, c.resultId)

(* the try block ran to its end                                            *)
HandlerComplete(c, o, hist, lf) ==
  /\ pc' = "finally"
  /\ ctx' = [c EXCEPT !.label = "Fit complete"]
  /\ fitBtnDisabled' = TRUE
  /\ fitBtnLook' = BusyLook([c EXCEPT !.label = "Fit complete"])
  /\ objs' = Live(o, hist, lf, c.resultId)

(* the outer finally block, lines 808-814                                  *)
HandlerFinally ==
  /\ InHandlerExit
  /\ fitBtnDisabled' = FALSE
  /\ fitBtnLook' = RestoredLook(fitBtnLook)
  /\ pc' = "idle"
  /\ ctx' = IdleCtx
  /\ calls' = <<>>
  /\ objs' = Live(objs, fitHistory, lastFit, 0)
  /\ UNCHANGED <<fitHistory, lastFit, pdfBtnDisabled, liveProxies, selVars, metaVars, pyVars,
                 boot, asm, view, session, chart>>

(* keyword arguments in which lagging stands in for an unknown model name  *)
RequestDefaulting(c, n_boot) ==
  [times |-> c.times, draws |-> c.draws,
   model_name |-> IF c.model \in KnownModels THEN c.model ELSE "lagging",
   r |-> c.r, Q |-> c.Q, conf |-> c.conf, n_boot |-> n_boot]

(* the keyword arguments of fitPy.callKwargs                               *)
Request(c, n_boot) ==
  [times |-> c.times, draws |-> c.draws, model_name |-> c.model,
   r |-> c.r, Q |-> c.Q, conf |-> c.conf, n_boot |-> n_boot]

(* lines 710-754: the n_boot = 0 call, the new result object, its push to  *)
(* the history and the start of the first chart render.  hist and lf are   *)
(* fitHistory and window._lastFit as the handler finds them.               *)
QuickPhase(c0, hist, lf) ==
  \E out \in SolverOutcomes(Request(c0, QuickNBoot)) :
    LET c == [c0 EXCEPT !.label = "Computing initial fit..."] IN
    /\ calls' = <<[req |-> Request(c, QuickNBoot), kind |-> out.kind]>>
    /\ IF out.kind # "ok"
       THEN /\ fitHistory' = hist
            /\ lastFit' = lf
            /\ liveProxies' = innerFinally(liveProxies \cup ArgProxies \cup {"fitPy"}, c)
            /\ HandlerCatch(ErrorMessage(out.kind), c, objs, hist, lf)
       ELSE LET o0 == Live(objs, hist, lf, 0)
                id == FreshRef(o0)
                c1 == convertResult(c, "quickResultPy")
                obj == populateResult(NewResultObj(Len(hist) + 1), out.res, QuickNBoot, c,
                                      currentModelMeta)
            IN /\ objs' = [i \in (DOMAIN o0) \cup {id} |-> IF i = id THEN obj ELSE o0[i]]
               /\ lastFit' = id
               /\ fitHistory' = Append(hist, id)
               /\ ctx' = [c1 EXCEPT !.resultId = id]
               /\ liveProxies' = liveProxies \cup ArgProxies \cup {"fitPy"}
                                    \cup ProxiesOfResult("quickResultPy")
               /\ pc' = "chart1"
               /\ fitBtnDisabled' = TRUE
               /\ fitBtnLook' = BusyLook(c)

(* an ensurePyodide that loads the runtime whenever the solver is missing  *)
EnsurePyodideReloading(c, hist, lf) ==
  IF pyodideInstance /\ solverLoaded
  THEN /\ QuickPhase(c, hist, lf)
       /\ UNCHANGED pyVars
  ELSE /\ pc' = "py_loadPyodide"
       /\ pyStatusReady' = IF ~pyodideInstance THEN FALSE ELSE pyStatusReady
       /\ ctx' = [c EXCEPT !.label = "Initializing Python..."]
       /\ calls' = <<>>
       /\ fitBtnDisabled' = TRUE
       /\ fitBtnLook' = BusyLook([c EXCEPT !.label = "Initializing Python..."])
       /\ fitHistory' = hist
       /\ lastFit' = lf
       /\ objs' = Live(objs, hist, lf, 0)
       /\ UNCHANGED <<pyodideInstance, packagesLoaded, solverLoaded, liveProxies>>

(* await ensurePyodide(): returns at once when the runtime is ready        *)
EnsurePyodideThen(c, hist, lf) ==
  IF pyodideInstance /\ solverLoaded
  THEN /\ QuickPhase(c, hist, lf)
       /\ UNCHANGED pyVars
  ELSE /\ pc' = IF ~pyodideInstance THEN "py_loadPyodide" ELSE "py_fetchSolver"
       /\ pyStatusReady' = IF ~pyodideInstance THEN FALSE ELSE pyStatusReady
       /\ ctx' = [c EXCEPT !.label = "Initializing Python..."]
       /\ calls' = <<>>
       /\ fitBtnDisabled' = TRUE
       /\ fitBtnLook' = BusyLook([c EXCEPT !.label = "Initializing Python..."])
       /\ fitHistory' = hist
       /\ lastFit' = lf
       /\ objs' = Live(objs, hist, lf, 0)
       /\ UNCHANGED <<pyodideInstance, packagesLoaded, solverLoaded, liveProxies>>

(* a handler without the emptiness check                                   *)
NoObservationsNever(times) == FALSE

(* if (!times.length) throw new Error('No valid observations found.')      *)
NoObservations(times) == Len(times) = 0

(* lines 613-708: a click with the given form contents; a disabled button  *)
(* dispatches no click                                                     *)
FitClickWith(form) ==
  /\ ~fitBtnDisabled
  /\ LET model == modelSelectValue
         reset == model # lastModelSelection
         hist == IF reset THEN <<>> ELSE fitHistory
         lf == IF reset THEN 0 ELSE lastFit
         parsed == parseCsvOrText(form.raw, ParseFloat(form.r), ParseFloat(form.Q))
         c == [model |-> model, nBoot |-> ReadNBoot(form.nBoot), conf |-> ReadConf(form.conf),
               times |-> parsed.times, draws |-> parsed.draws,
               r |-> parsed.r, Q |-> parsed.Q, resultId |-> 0, err |-> "none",
               form |-> form, trackedPyProxies |-> {}, resultHandles |-> {},
               originalLabel |-> fitBtnLook.textContent, label |-> "Parsing data"]
     IN /\ lastModelSelection' = model
        /\ pdfBtnDisabled' = TRUE
        /\ IF ~parsed.ok
           THEN /\ HandlerCatch("CSV must include time_min and drawdown_m columns.",
                                c, objs, hist, lf)
                /\ calls' = <<>>
                /\ fitHistory' = hist
                /\ lastFit' = lf
                /\ UNCHANGED <<pyVars, liveProxies>>
           ELSE IF NoObservations(parsed.times)
           THEN /\ HandlerCatch("No valid observations found.", c, objs, hist, lf)
                /\ calls' = <<>>
                /\ fitHistory' = hist
                /\ lastFit' = lf
                /\ UNCHANGED <<pyVars, liveProxies>>
           ELSE EnsurePyodideThen(c, hist, lf)
  /\ UNCHANGED <<modelSelectValue, lastValidModelSelection, metaVars, boot, asm, view, session, chart>>

FitClick ==
  /\ Len(fitHistory) < MaxHistory
  /\ \E form \in UiForms : FitClickWith(form)

(* ensurePyodide, one awaited step at a time                               *)
PyLoadPyodide ==
  /\ pc = "py_loadPyodide"
  /\ \/ /\ pyodideInstance' = TRUE
        /\ pc' = "py_loadPackage"
        /\ UNCHANGED <<pyStatusReady, objs, fitBtnDisabled, fitBtnLook, ctx>>
     \/ /\ pyStatusReady' = FALSE
        /\ HandlerCatch("PyodideLoadError", ctx, objs, fitHistory, lastFit)
        /\ UNCHANGED pyodideInstance
  /\ UNCHANGED <<packagesLoaded, solverLoaded, fitHistory, lastFit, pdfBtnDisabled, calls,
                 liveProxies, selVars, metaVars, boot, asm, view, session, chart>>

PyLoadPackage ==
  /\ pc = "py_loadPackage"
  /\ \/ /\ packagesLoaded' = TRUE
        /\ pc' = "py_fetchSolver"
        /\ UNCHANGED <<pyStatusReady, objs, fitBtnDisabled, fitBtnLook, ctx>>
     \/ /\ pyStatusReady' = FALSE
        /\ HandlerCatch("PackageLoadError", ctx, objs, fitHistory, lastFit)
        /\ UNCHANGED packagesLoaded
  /\ UNCHANGED <<pyodideInstance, solverLoaded, fitHistory, lastFit, pdfBtnDisabled, calls,
                 liveProxies, selVars, metaVars, boot, asm, view, session, chart>>

(* a loader that marks the badge ready once the script is fetched          *)
PyFetchSolverReadyEarly ==
  /\ pc = "py_fetchSolver"
  /\ \/ /\ pc' = "py_runSolver"
        /\ pyStatusReady' = TRUE
        /\ UNCHANGED <<objs, fitBtnDisabled, fitBtnLook, ctx>>
     \/ /\ pyStatusReady' = FALSE
        /\ HandlerCatch("SolverFetchError", ctx, objs, fitHistory, lastFit)
  /\ UNCHANGED <<pyodideInstance, packagesLoaded, solverLoaded, fitHistory, lastFit,
                 pdfBtnDisabled, calls, liveProxies, selVars, metaVars, boot, asm, view, session, chart>>

PyFetchSolver ==
  /\ pc = "py_fetchSolver"
  /\ \/ /\ pc' = "py_runSolver"
        /\ UNCHANGED <<pyStatusReady, objs, fitBtnDisabled, fitBtnLook, ctx>>
     \/ /\ pyStatusReady' = FALSE
        /\ HandlerCatch("SolverFetchError", ctx, objs, fitHistory, lastFit)
  /\ UNCHANGED <<pyodideInstance, packagesLoaded, solverLoaded, fitHistory, lastFit,
                 pdfBtnDisabled, calls, liveProxies, selVars, metaVars, boot, asm, view, session, chart>>

(* the solver script imports numpy and scipy when it is run, so            *)
(* runPythonAsync(code) rejects unless the packages are loaded             *)
SolverImportsResolve == packagesLoaded

PyRunSolver ==
  /\ pc = "py_runSolver"
  /\ \/ /\ SolverImportsResolve
        /\ solverLoaded' = TRUE
        /\ pyStatusReady' = TRUE
        /\ QuickPhase(ctx, fitHistory, lastFit)
     \/ /\ pyStatusReady' = FALSE
        /\ HandlerCatch("SolverRunError", ctx, objs, fitHistory, lastFit)
        /\ UNCHANGED <<solverLoaded, fitHistory, lastFit, calls, liveProxies>>
  /\ UNCHANGED <<pyodideInstance, packagesLoaded, pdfBtnDisabled, selVars, metaVars, boot, asm, view, session, chart>>

(* the first `await renderChart(getSelectedFits())` settles                *)
ChartSettle1 ==
  /\ pc = "chart1"
  /\ \/ /\ pc' = "timer"
        /\ ctx' = [ctx EXCEPT !.label = "Calculating confidence intervals..."]
        /\ fitBtnLook' = BusyLook([ctx EXCEPT !.label = "Calculating confidence intervals..."])
        /\ UNCHANGED <<objs, fitBtnDisabled, liveProxies>>
     \/ /\ liveProxies' = innerFinally(liveProxies, ctx)
        /\ HandlerCatch("PlotError", ctx, objs, fitHistory, lastFit)
  /\ UNCHANGED <<fitHistory, lastFit, pdfBtnDisabled, calls, selVars, metaVars, pyVars, boot, asm, view, session, chart>>

(* a callback that asks for the default confidence level                  *)
TimerFireDefaultConf ==
  /\ pc = "timer"
  /\ \E out \in SolverOutcomes([Request(ctx, ctx.nBoot) EXCEPT !.conf = 95]) :
       /\ calls' = Append(calls, [req |-> [Request(ctx, ctx.nBoot) EXCEPT !.conf = 95], kind |-> out.kind])
       /\ IF out.kind # "ok"
          THEN /\ liveProxies' = innerFinally(liveProxies, ctx)
               /\ HandlerCatch(ErrorMessage(out.kind), ctx, objs, fitHistory, lastFit)
               /\ UNCHANGED <<lastFit, pdfBtnDisabled>>
          ELSE LET id == ctx.resultId
                   c1 == convertResult(ctx, "fullResultPy")
                   live1 == liveProxies \cup ProxiesOfResult("fullResultPy")
                   o1 == [objs EXCEPT ![id] =
                            populateResult(objs[id], out.res, ctx.nBoot, ctx, currentModelMeta)]
               IN /\ lastFit' = id
                  /\ IF SelectedFits(fitHistory, o1) = <<>>
                     THEN /\ pdfBtnDisabled' = FALSE
                          /\ liveProxies' = innerFinally(live1, c1)
                          /\ HandlerComplete(c1, o1, fitHistory, id)
                     ELSE /\ objs' = o1
                          /\ pc' = "chart2"
                          /\ ctx' = [c1 EXCEPT !.label = "Processing results..."]
                          /\ fitBtnLook' = BusyLook([c1 EXCEPT !.label = "Processing results..."])
                          /\ liveProxies' = live1
                          /\ UNCHANGED <<pdfBtnDisabled, fitBtnDisabled>>
  /\ UNCHANGED <<fitHistory, selVars, metaVars, pyVars, boot, asm, view, session, chart>>

(* lines 759-781: the setTimeout callback makes the n_boot = nBoot call,   *)
(* the handler repopulates the same result object and starts the second    *)
(* chart render, which settles at once when no fit is selected             *)
TimerFire ==
  /\ pc = "timer"
  /\ \E out \in SolverOutcomes(Request(ctx, ctx.nBoot)) :
       /\ calls' = Append(calls, [req |-> Request(ctx, ctx.nBoot), kind |-> out.kind])
       /\ IF out.kind # "ok"
          THEN /\ liveProxies' = innerFinally(liveProxies, ctx)
               /\ HandlerCatch(ErrorMessage(out.kind), ctx, objs, fitHistory, lastFit)
               /\ UNCHANGED <<lastFit, pdfBtnDisabled>>
          ELSE LET id == ctx.resultId
                   c1 == convertResult(ctx, "fullResultPy")
                   live1 == liveProxies \cup ProxiesOfResult("fullResultPy")
                   o1 == [objs EXCEPT ![id] =
                            populateResult(objs[id], out.res, ctx.nBoot, ctx, currentModelMeta)]
               IN /\ lastFit' = id
                  /\ IF SelectedFits(fitHistory, o1) = <<>>
                     THEN /\ pdfBtnDisabled' = FALSE
                          /\ liveProxies' = innerFinally(live1, c1)
                          /\ HandlerComplete(c1, o1, fitHistory, id)
                     ELSE /\ objs' = o1
                          /\ pc' = "chart2"
                          /\ ctx' = [c1 EXCEPT !.label = "Processing results..."]
                          /\ fitBtnLook' = BusyLook([c1 EXCEPT !.label = "Processing results..."])
                          /\ liveProxies' = live1
                          /\ UNCHANGED <<pdfBtnDisabled, fitBtnDisabled>>
  /\ UNCHANGED <<fitHistory, selVars, metaVars, pyVars, boot, asm, view, session, chart>>

(* the second `await renderChart(getSelectedFits())` settles               *)
ChartSettle2 ==
  /\ pc = "chart2"
  /\ liveProxies' = innerFinally(liveProxies, ctx)
  /\ \/ /\ pdfBtnDisabled' = FALSE
        /\ HandlerComplete(ctx, objs, fitHistory, lastFit)
     \/ /\ HandlerCatch("PlotError", ctx, objs, fitHistory, lastFit)
        /\ UNCHANGED pdfBtnDisabled
  /\ UNCHANGED <<fitHistory, lastFit, calls, selVars, metaVars, pyVars, boot, asm, view, session, chart>>

Next ==
  \/ MetaFetchDone
  \/ MetaFetchFail
  \/ ModelChange
  \/ ClearHistory
  \/ FitClick
  \/ PyLoadPyodide
  \/ PyLoadPackage
  \/ PyFetchSolver
  \/ PyRunSolver
  \/ ChartSettle1
  \/ TimerFire
  \/ ChartSettle2
  \/ HandlerFinally

Spec == Init /\ [][Next]_vars


(***************************************************************************)
(* The parser specification: the page with the metadata loaded, the        *)
(* runtime loaded or not yet, and an empty history; one fit click on any   *)
(* pasted text and form values of the bounded alphabet is followed through *)
(* the handler.                                                            *)
(***************************************************************************)
InitParse ==
  /\ modelSelectValue \in InitialModels
  /\ lastModelSelection = modelSelectValue
  /\ lastValidModelSelection = modelSelectValue
  /\ modelsCache = "loaded"
  /\ currentModelMeta = MetaOf(modelSelectValue)
  /\ modelDetailsRenderToken = 1
  /\ pendingRenders = {}
  /\ modelDetails = DetailsOf(modelSelectValue)
  /\ pyodideInstance \in BOOLEAN
  /\ packagesLoaded = pyodideInstance
  /\ solverLoaded = pyodideInstance
  /\ pyStatusReady = pyodideInstance
  /\ fitHistory = <<>>
  /\ lastFit = 0
  /\ objs = <<>>
  /\ fitBtnDisabled = FALSE
  /\ fitBtnLook = InitialLook
  /\ pdfBtnDisabled = TRUE
  /\ pc = "idle"
  /\ ctx = IdleCtx
  /\ calls = <<>>
  /\ liveProxies = {}
  /\ boot = IdleBoot
  /\ asm = IdleAsm
  /\ view = IdleView /\ session = IdleSession /\ chart = IdleChart

ParseClick ==
  /\ fitHistory = <<>>
  /\ lastFit = 0
  /\ \E form \in AllForms : FitClickWith(form)

NextParse ==
  \/ ParseClick
  \/ PyLoadPyodide
  \/ PyLoadPackage
  \/ PyFetchSolver
  \/ PyRunSolver
  \/ ChartSettle1
  \/ TimerFire
  \/ ChartSettle2
  \/ HandlerFinally

SpecParse == InitParse /\ [][NextParse]_vars

(***************************************************************************)
(* The handler's progress: the page with the metadata loaded, fit clicks,  *)
(* model changes and history clears in any order, up to MaxFits results in *)
(* the history, and every promise a running handler                        *)
(* awaits settling: the runtime load (line 708), the chart renders (lines  *)
(* 754, 778) and the timer of line 759.                                    *)
(***************************************************************************)
(* the steps of a running handler                                          *)
HandlerStep ==
  \/ PyLoadPyodide
  \/ PyLoadPackage
  \/ PyFetchSolver
  \/ PyRunSolver
  \/ ChartSettle1
  \/ TimerFire
  \/ ChartSettle2
  \/ HandlerFinally

(* a click while the history holds fewer than MaxFits results              *)
LiveClick ==
  /\ Len(fitHistory) < MaxFits
  /\ \E form \in UiForms : FitClickWith(form)

NextLive ==
  \/ LiveClick
  \/ ModelChange
  \/ ClearHistory
  \/ HandlerStep

SpecLive == InitParse /\ [][NextLive]_vars /\ WF_vars(HandlerStep)

(***************************************************************************)
(* The bootstrap specification: one call of fit_with_ci seen from inside   *)
(* (Bootstrap Engine, steps 1 to 4).  The outcome of every resample refit  *)
(* is fixed when the call starts (refit[i] is the estimate of resample i,  *)
(* NaN when its fit fails); the resamples complete in any order.           *)
(***************************************************************************)
BootRequests ==
  { [times |-> <<1, 2>>, draws |-> <<1, 3>>, model_name |-> "lagging", r |-> 3, Q |-> 3],
    [times |-> <<1>>, draws |-> <<1>>, model_name |-> "lagging", r |-> 3, Q |-> 3],
    [times |-> <<0, 1>>, draws |-> <<1, 1>>, model_name |-> "lagging", r |-> 3, Q |-> 3],
    [times |-> <<1, 2>>, draws |-> <<1, 3>>, model_name |-> "bogus", r |-> 3, Q |-> 3] }

BootInits ==
  {[pc |-> "start",
    req |-> [times |-> q.times, draws |-> q.draws, model_name |-> q.model_name,
             r |-> q.r, Q |-> q.Q, conf |-> conf, n_boot |-> n],
    refit |-> f, pending |-> {}, samples |-> <<>>, skipped |-> 0,
    point |-> <<>>, result |-> <<>>, raised |-> "none"] :
     q \in BootRequests, conf \in {50, 90},
     n \in 0..MaxBoot, f \in UNION {[1..m -> SampleVals \cup {NaN}] : m \in 0..MaxBoot}}

InitBoot ==
  /\ InitPage
  /\ modelSelectValue = "lagging"
  /\ boot \in BootInits
  /\ asm = IdleAsm
  /\ view = IdleView /\ session = IdleSession /\ chart = IdleChart
  /\ DOMAIN boot.refit = 1..boot.req.n_boot

(* the input checks and step 1, the point estimate on the observed data    *)
BootStart ==
  /\ boot.pc = "start"
  /\ IF ~ValidInput(boot.req)
     THEN boot' = [boot EXCEPT !.pc = "raised", !.raised = "InputError"]
     ELSE IF boot.req.model_name \notin KnownModels
     THEN boot' = [boot EXCEPT !.pc = "raised", !.raised = "UnknownModelError"]
     ELSE boot' = [boot EXCEPT !.pc = "resampling",
                               !.point = fit(boot.req.times, boot.req.draws,
                                             boot.req.model_name),
                               !.pending = 1..boot.req.n_boot]

(* the estimate of resample i: residuals of a failed point fit are not     *)
(* finite, so every refit on them fails                                    *)
RefitOutcome(b, i) == IF b.point.status = "ok" THEN b.refit[i] ELSE NaN

(* a loop that raises when a resample's refit fails                        *)
BootResampleAborting ==
  /\ boot.pc = "resampling"
  /\ \E i \in boot.pending :
       IF RefitOutcome(boot, i) = NaN
       THEN boot' = [boot EXCEPT !.pc = "raised", !.raised = "ConvergenceFailure"]
       ELSE boot' = [boot EXCEPT !.pending = @ \ {i},
                                 !.samples = Append(@, RefitOutcome(boot, i))]

(* step 3 for one resample: record its estimate, or skip and count it      *)
BootResample ==
  /\ boot.pc = "resampling"
  /\ \E i \in boot.pending :
       IF RefitOutcome(boot, i) = NaN
       THEN boot' = [boot EXCEPT !.pending = @ \ {i}, !.skipped = @ + 1]
       ELSE boot' = [boot EXCEPT !.pending = @ \ {i},
                                 !.samples = Append(@, RefitOutcome(boot, i))]

(* step 4 and the result assembler, once every resample has completed      *)
BootAggregate ==
  /\ boot.pc = "resampling"
  /\ boot.pending = {}
  /\ boot' = [boot EXCEPT !.pc = "done",
                          !.result = AssembleResult(boot.point, boot.req.model_name,
                                                    boot.req.conf, boot.req.n_boot,
                                                    boot.samples, boot.skipped)]

NextBoot ==
  \/ BootStart /\ UNCHANGED <<selVars, metaVars, pyVars, histVars, handlerVars, asm, view, session, chart>>
  \/ BootResample /\ UNCHANGED <<selVars, metaVars, pyVars, histVars, handlerVars, asm, view, session, chart>>
  \/ BootAggregate /\ UNCHANGED <<selVars, metaVars, pyVars, histVars, handlerVars, asm, view, session, chart>>

SpecBoot == InitBoot /\ [][NextBoot]_vars

(***************************************************************************)
(* The assembly specification: the two populateResult calls of one click   *)
(* on a memory that holds the two results of the solver, the observed      *)
(* times and draws and the metadata current at each call.                  *)
(***************************************************************************)
AsmTimes == {<<1>>, <<1, 2>>}

AsmMetas == {"null", "theis", "lagging"}

(* the references of the given objects                                     *)
QuickRes == [params |-> 1, metrics |-> 2, fitted |-> 3, ci |-> 4, samples |-> 5]
FullRes == [params |-> 6, metrics |-> 7, fitted |-> 8, ci |-> 9, samples |-> 10]
AsmContext(model, conf) ==
  [times |-> 11, draws |-> 12, model |-> model, r |-> 3, Q |-> 3, conf |-> conf]

ResultObjects(res) == <<res.params, res.metrics, res.fitted, res.ci, res.samples>>

AsmInits ==
  UNION {
    LET c == [model |-> m, conf |-> 95, times |-> t, draws |-> t, r |-> 3, Q |-> 3] IN
    {[pc |-> "quick",
      given |-> ResultObjects(o1.res) \o ResultObjects(o2.res) \o <<t, t, meta1, meta2>>,
      mem |-> ResultObjects(o1.res) \o ResultObjects(o2.res) \o <<t, t, meta1, meta2>>,
      context |-> AsmContext(m, 95), nBoot |-> n, target |-> 0] :
       o1 \in {o \in SolverOutcomes(Request(c, QuickNBoot)) : o.kind = "ok"},
       o2 \in {o \in SolverOutcomes(Request(c, n)) : o.kind = "ok"}} :
    m \in KnownModels, t \in AsmTimes, n \in {0, 2}, meta1 \in AsmMetas, meta2 \in AsmMetas}

InitAssemble ==
  /\ InitPage
  /\ modelSelectValue = "lagging"
  /\ boot = IdleBoot
  /\ asm \in AsmInits
  /\ view = IdleView /\ session = IdleSession /\ chart = IdleChart

(* lines 740-746: the new result object and populateResult(resultObj,      *)
(* quickResult, 0, fitContext)                                             *)
AssembleQuick ==
  /\ asm.pc = "quick"
  /\ LET m1 == Append(asm.mem, NewResultObj(1))
         target == Len(m1)
     IN asm' = [asm EXCEPT !.pc = "full", !.target = target,
                           !.mem = populateResultRefs(m1, target, QuickRes, QuickNBoot,
                                                      asm.context, asm.mem[13])]

(* line 772: populateResult(resultObj, fullResult, nBoot, fitContext)      *)
AssembleFull ==
  /\ asm.pc = "full"
  /\ asm' = [asm EXCEPT !.pc = "done",
                        !.mem = populateResultRefs(asm.mem, asm.target, FullRes, asm.nBoot,
                                                   asm.context, asm.mem[14])]

NextAssemble ==
  \/ AssembleQuick /\ UNCHANGED <<selVars, metaVars, pyVars, histVars, handlerVars, boot, view, session, chart>>
  \/ AssembleFull /\ UNCHANGED <<selVars, metaVars, pyVars, histVars, handlerVars, boot, view, session, chart>>

SpecAssemble == InitAssemble /\ [][NextAssemble]_vars

(***************************************************************************)
(* The display specification: a value handed to the three formatters, a    *)
(* result handed to renderMetrics, or a fit handed to                      *)
(* calculateBootstrapTraces.                                               *)
(***************************************************************************)
(* the sample arrays of the T parameter and of the others                  *)
SamplesOfT == SeqsUpTo({1, NaN}, SampleCap + 1) \cup {<<JsNull>>, <<1, JsNull, 1>>}
SamplesOfS == {<<>>, <<2>>, <<2, NaN>>, [i \in 1..(SampleCap + 1) |-> 2]}

BaseFits ==
  {[model |-> m,
    samples |-> IF m = "theis" THEN [k \in {"T", "S"} |-> IF k = "T" THEN a ELSE b]
                ELSE [k \in ModelParamKeys("lagging") |-> IF k = "S" THEN b ELSE a],
    curves |-> [fitted |-> f], r |-> 3, Q |-> 3] :
     m \in KnownModels, a \in SamplesOfT, b \in SamplesOfS,
     f \in {<<>>, << <<1, 1>>, <<2, 1>> >>}}

JsVals == {0, 2, 0 - 2, 20000, NaN, PosInf, NegInf, JsNull, JsUndefined}

ViewInits ==
  {[pc |-> "value", value |-> v, digits |-> d] : v \in JsVals, d \in {3, 4}}
  \cup
  {[pc |-> "result",
    result |-> [metrics |-> [rmse |-> a, r2 |-> b], conf |-> 95, nBoot |-> n]] :
     a \in JsVals, b \in JsVals, n \in {0, 2, NaN}}
  \cup
  {[pc |-> "fit", baseFit |-> bf, pyodideReady |-> TRUE, throwing |-> th] :
     bf \in BaseFits, th \in SUBSET (1..SampleCap)}
  \cup
  {[pc |-> "fit", baseFit |-> bf, pyodideReady |-> FALSE, throwing |-> {}] :
     bf \in BaseFits}

InitRender ==
  /\ InitPage
  /\ modelSelectValue = "lagging"
  /\ boot = IdleBoot
  /\ asm = IdleAsm
  /\ view \in ViewInits
  /\ session = IdleSession /\ chart = IdleChart

FormatValue ==
  /\ view.pc = "value"
  /\ view' = [pc |-> "formatted", value |-> view.value, digits |-> view.digits,
              exp |-> fmtExp(view.value),
              dec |-> fmtDec(view.value, view.digits),
              num |-> formatNumber(view.value, view.digits)]

RenderMetrics ==
  /\ view.pc = "result"
  /\ view' = [pc |-> "metrics", result |-> view.result,
              entries |-> renderMetrics(view.result)]

CalculateBootstrapTraces ==
  /\ view.pc = "fit"
  /\ view' = [pc |-> "traces", baseFit |-> view.baseFit,
              pyodideReady |-> view.pyodideReady, throwing |-> view.throwing,
              out |-> calculateBootstrapTraces(view.baseFit, view.pyodideReady,
                                               view.throwing)]

NextRender ==
  \/ CalculateBootstrapTraces
       /\ UNCHANGED <<selVars, metaVars, pyVars, histVars, handlerVars, boot, asm, session, chart>>
  \/ FormatValue /\ UNCHANGED <<selVars, metaVars, pyVars, histVars, handlerVars, boot, asm, session, chart>>
  \/ RenderMetrics /\ UNCHANGED <<selVars, metaVars, pyVars, histVars, handlerVars, boot, asm, session, chart>>

SpecRender == InitRender /\ [][NextRender]_vars

(***************************************************************************)
(* The session specification: the controls in any saved state, saveSession *)
(* writing the storage item, and the next page load calling loadSession on *)
(* the controls of the markup.  A load with no stored item is a first      *)
(* visit.                                                                  *)
(***************************************************************************)
InitSession ==
  /\ InitPage
  /\ modelSelectValue = "lagging"
  /\ boot = IdleBoot
  /\ asm = IdleAsm
  /\ view = IdleView
  /\ chart = IdleChart
  /\ \E c \in SessionControls :
       session = [pc |-> "editing", controls |-> c, payload |-> NoPayload, saved |-> c,
                  markup |-> c]

(* saveSession() with the storage available                                *)
SaveSession ==
  /\ session.pc = "editing"
  /\ session' = [session EXCEPT !.pc = "saved", !.payload = saveSession(session.controls),
                                !.saved = session.controls]

(* the page is loaded again: loadSession() on the controls of the markup   *)
LoadSession ==
  /\ session.pc \in {"editing", "saved"}
  /\ \E m \in MarkupControls :
       session' = [session EXCEPT !.pc = "restored", !.markup = m,
                                  !.controls = loadSession(session.payload, m)]

NextSession ==
  \/ SaveSession /\ UNCHANGED <<selVars, metaVars, pyVars, histVars, handlerVars, boot, asm, view, chart>>
  \/ LoadSession /\ UNCHANGED <<selVars, metaVars, pyVars, histVars, handlerVars, boot, asm, view, chart>>

SpecSession == InitSession /\ [][NextSession]_vars

(***************************************************************************)
(* The chart specification: renderChart called from the checkboxes of the  *)
(* history, the scale buttons, the fit handler and Clear history, each     *)
(* call running from one await to the next.  A call is [pc, fits]: fits is *)
(* "none" (no selected fit), "single" (one fit with bootstrap samples) or  *)
(* "plain" (several fits, or one without samples).  chart.shown is what    *)
(* the element displays: the placeholder message, the element emptied for  *)
(* a plot, or the plot of call `of` with the bootstrap traces of the calls *)
(* in `extra`.  Plotly draws into the element by the time the promise of   *)
(* newPlot or addTraces resolves.                                          *)
(***************************************************************************)
FitsToRender == {"none", "single", "plain"}

InitChart ==
  /\ InitPage
  /\ modelSelectValue = "lagging"
  /\ boot = IdleBoot
  /\ asm = IdleAsm
  /\ view = IdleView
  /\ session = IdleSession
  /\ chart = IdleChart

(* lines 1285-1374: the call up to its first await; with no fit to render  *)
(* it shows the message and returns                                        *)
StartRender ==
  /\ Len(chart.calls) < MaxChartCalls
  /\ \E fits \in FitsToRender :
       LET id == Len(chart.calls) + 1 IN
       IF fits = "none"
       THEN chart' = [chart EXCEPT !.shown = [kind |-> "message", of |-> id, extra |-> {}],
                                   !.hasPlot = "0",
                                   !.calls = Append(@, [pc |-> "done", fits |-> fits])]
       ELSE chart' = [chart EXCEPT !.shown = [kind |-> "blank", of |-> id, extra |-> {}],
                                   !.calls = Append(@, [pc |-> "newPlot", fits |-> fits])]

(* lines 1374-1378: newPlot resolves, the plot of this call is in the      *)
(* element and hasPlot is set; or newPlot rejects and the call ends        *)
ChartPlotted(id) ==
  /\ chart.calls[id].pc = "newPlot"
  /\ \/ chart' = [chart EXCEPT
                     !.shown = [kind |-> "plot", of |-> id, extra |-> {}],
                     !.hasPlot = "1",
                     !.calls[id].pc = IF chart.calls[id].fits = "single"
                                      THEN "bootstrap" ELSE "done"]
     \/ chart' = [chart EXCEPT !.calls[id].pc = "done"]

(* lines 1379-1382: calculateBootstrapTraces settles with traces to add,   *)
(* or with none (or throws) and the call ends                              *)
ChartTraces(id) ==
  /\ chart.calls[id].pc = "bootstrap"
  /\ \/ chart' = [chart EXCEPT !.calls[id].pc = "addTraces"]
     \/ chart' = [chart EXCEPT !.calls[id].pc = "done"]

(* lines 1382-1387: addTraces resolves with the traces added to the plot   *)
(* the element holds, or rejects (no plot in the element) and is caught    *)
ChartTracesAdded(id) ==
  /\ chart.calls[id].pc = "addTraces"
  /\ chart' = [chart EXCEPT
                 !.shown.extra = IF chart.shown.kind = "plot" THEN @ \cup {id} ELSE @,
                 !.calls[id].pc = "done"]

NextChart ==
  \/ StartRender
       /\ UNCHANGED <<selVars, metaVars, pyVars, histVars, handlerVars, boot, asm, view, session>>
  \/ (\E id \in 1..Len(chart.calls) : ChartPlotted(id))
       /\ UNCHANGED <<selVars, metaVars, pyVars, histVars, handlerVars, boot, asm, view, session>>
  \/ (\E id \in 1..Len(chart.calls) : ChartTraces(id))
       /\ UNCHANGED <<selVars, metaVars, pyVars, histVars, handlerVars, boot, asm, view, session>>
  \/ (\E id \in 1..Len(chart.calls) : ChartTracesAdded(id))
       /\ UNCHANGED <<selVars, metaVars, pyVars, histVars, handlerVars, boot, asm, view, session>>

SpecChart == InitChart /\ [][NextChart]_vars

(***************************************************************************)
(* Properties.                                                             *)
(***************************************************************************)
(* the result objects reachable from the history or window._lastFit        *)
StoredRefs == Range(fitHistory) \cup ({lastFit} \ {0})

AfterQuickPhase == pc \in {"chart1", "timer"}
AfterFirstCall == pc \in {"chart1", "timer", "chart2", "finally"}

(* C1: every stored fit result (window._lastFit and each fitHistory entry) *)
(* reports params, ci and samples for exactly the keys the fitted model    *)
(* (result.model) declares: of the keys the solver returned, the declared  *)
(* ones and no others.                                                     *)
C1_StoredKeysExact ==
  \A id \in StoredRefs :
    LET o == objs[id]
        declared == ModelParamKeys(o.model)
    IN /\ DOMAIN o.params = (DOMAIN o.raw.params) \cap declared
       /\ DOMAIN o.ci = (DOMAIN o.raw.ci) \cap declared
       /\ DOMAIN o.samples = (DOMAIN o.raw.samples) \cap declared

(* C2: the n_boot = 0 call returns an empty ci and empty samples with the  *)
(* params and metrics of fit on the same inputs, and the result recorded   *)
(* after the quick phase of a fit click has nBoot = 0, no CI entries and   *)
(* no samples.                                                             *)
C2_QuickPhaseHasNoBootstrap ==
  AfterQuickPhase =>
    LET o == objs[ctx.resultId]
        point == fit(ctx.times, ctx.draws, ctx.model)
    IN /\ calls[1].req.n_boot = 0
       /\ DOMAIN o.raw.ci = {}
       /\ DOMAIN o.raw.samples = {}
       /\ o.raw.params = point.params
       /\ o.raw.metrics = point.metrics
       /\ o.nBoot = 0
       /\ DOMAIN o.ci = {}
       /\ DOMAIN o.samples = {}

(* a quick-phase result of a converged fit, waiting for the full phase     *)
C2_Witness ==
  /\ pc = "timer"
  /\ objs[ctx.resultId].raw.status = "ok"
  /\ objs[ctx.resultId].nBoot = 0
  /\ DOMAIN objs[ctx.resultId].params # {}
  /\ ctx.nBoot > 0

(* C3: a click whose parsed observation set is empty ends in the error     *)
(* path at once, with the error shown, the Python runtime untouched and no *)
(* call of fit_with_ci; a set of exactly one valid observation is not      *)
(* rejected as an input error and is passed to the solver.                 *)
C3_EmptySetFailsEarly ==
  /\ [](/\ (pc # "idle" /\ Len(ctx.times) = 0) =>
             /\ pc = "catch"
             /\ ctx.err \in {"No valid observations found.",
                              "CSV must include time_min and drawdown_m columns."}
             /\ calls = <<>>
        /\ \A i \in 1..Len(calls) : Len(calls[i].req.times) >= 1
        /\ (Len(ctx.times) = 1 /\ ValidInput(Request(ctx, QuickNBoot))) =>
             /\ ctx.err \notin {"No valid observations found.", "InputError"}
             /\ AfterFirstCall => (calls # <<>> /\ calls[1].req.times = ctx.times))
  /\ [][(pc = "idle" /\ pc' # "idle" /\ Len(ctx'.times) = 0) =>
          (pc' = "catch" /\ calls' = <<>> /\ UNCHANGED pyVars)]_vars

(* the empty text is refused while the runtime has never been loaded       *)
C3_Witness ==
  /\ pc = "catch"
  /\ ctx.err = "No valid observations found."
  /\ ctx.times = <<>>
  /\ ~pyodideInstance
  /\ calls = <<>>

ColumnOf(headers, name) == CHOOSE i \in 1..Len(headers) : headers[i] = name

(* the (time, drawdown) pairs of the data rows of a pasted text whose      *)
(* first cell is not empty and whose time and drawdown are both finite,    *)
(* in file order                                                           *)
ExpectedPairs(raw) ==
  LET colT == ColumnOf(Head(raw), HdrTime)
      colS == ColumnOf(Head(raw), HdrDraw)
      Num(row, col) == IF col <= Len(row) THEN ParseFloat(row[col]) ELSE NaN
      Kept(row) == row[1] # "" /\ IsFinite(Num(row, colT)) /\ IsFinite(Num(row, colS))
      kept == SelectSeq(Tail(raw), Kept)
  IN [k \in 1..Len(kept) |-> <<Num(kept[k], colT), Num(kept[k], colS)>>]

(* C5: in every call of fit_with_ci, times and draws have the same length, *)
(* at least one element and only finite numbers, and the k-th time and the *)
(* k-th drawdown are those of the k-th kept row of the pasted text.        *)
C5_CallObservationsPaired ==
  \A i \in 1..Len(calls) :
    LET req == calls[i].req
        expected == ExpectedPairs(ctx.form.raw)
    IN /\ Len(req.times) = Len(req.draws)
       /\ Len(req.times) >= 1
       /\ Len(req.times) = Len(expected)
       /\ \A k \in 1..Len(req.times) :
            /\ IsFinite(req.times[k])
            /\ IsFinite(req.draws[k])
            /\ <<req.times[k], req.draws[k]>> = expected[k]

(* a call made after one of two rows was dropped, the drawdown column      *)
(* standing before the time column                                         *)
C5_Witness ==
  /\ calls # <<>>
  /\ Head(ctx.form.raw) = HeaderRev
  /\ Len(ctx.form.raw) = 3
  /\ calls[1].req.times = <<3>>
  /\ calls[1].req.draws = <<2>>
  /\ calls[1].kind = "ok"

(* C6: a call of fit_with_ci with a non-positive time, or a non-positive   *)
(* or non-finite r or Q, is answered by an input error: it is the only     *)
(* call of its click, the handler is in its error path and no result       *)
(* object exists.                                                          *)
C6_BadInputRejected ==
  \A i \in 1..Len(calls) :
    LET req == calls[i].req IN
    ( \/ \E k \in 1..Len(req.times) : req.times[k] <= 0
      \/ ~IsFinite(req.r) \/ req.r <= 0
      \/ ~IsFinite(req.Q) \/ req.Q <= 0 ) =>
        /\ calls[i].kind = "InputError"
        /\ Len(calls) = 1
        /\ pc = "catch"
        /\ ctx.err = "InputError"
        /\ ctx.resultId = 0
        /\ DOMAIN objs = {}

(* a request with a finite radius of zero has been rejected                *)
C6_Witness ==
  /\ calls # <<>>
  /\ calls[1].req.r = 0
  /\ \A k \in 1..Len(calls[1].req.times) : calls[1].req.times[k] > 0
  /\ calls[1].kind = "InputError"
  /\ pc = "catch"

(* the resamples of the running call that have completed, and the          *)
(* estimates of those that succeeded, read from the fixed outcomes         *)
BootCompleted == (1..boot.req.n_boot) \ boot.pending
BootSucceeded == {i \in BootCompleted : RefitOutcome(boot, i) # NaN}
BootFailed == {i \in BootCompleted : RefitOutcome(boot, i) = NaN}

(* C7: a resample whose refit fails is skipped and counted and the loop    *)
(* goes on: the call raises only from its input checks, before the first   *)
(* resample; every completed resample is recorded either as a sample or as *)
(* a skip; the interval bounds are estimates of successful resamples; and  *)
(* in the result successful + skipped = n_boot.                            *)
C7_FailedResamplesSkipped ==
  /\ boot.pc \in {"idle", "start", "resampling", "done", "raised"}
  /\ boot.pc = "raised" =>
       /\ boot.raised \in {"InputError", "UnknownModelError"}
       /\ boot.samples = <<>>
       /\ boot.skipped = 0
       /\ boot.pending = {}
  /\ boot.pc \in {"resampling", "done"} =>
       /\ Len(boot.samples) = Cardinality(BootSucceeded)
       /\ boot.skipped = Cardinality(BootFailed)
       /\ \A k \in 1..Len(boot.samples) :
            \E i \in BootSucceeded : boot.samples[k] = RefitOutcome(boot, i)
  /\ boot.pc = "done" =>
       /\ boot.pending = {}
       /\ boot.result.nSuccess + boot.result.nSkipped = boot.req.n_boot
       /\ boot.result.nSkipped = Cardinality(BootFailed)
       /\ \A key \in DOMAIN boot.result.ci :
            \A b \in 1..2 :
              \E i \in BootSucceeded : boot.result.ci[key][b] = RefitOutcome(boot, i)
       /\ \A key \in DOMAIN boot.result.samples :
            NaN \notin Range(boot.result.samples[key])

(* a call that skipped a failed resample and still reports an interval     *)
C7_Witness ==
  /\ boot.pc = "done"
  /\ boot.skipped >= 1
  /\ Len(boot.samples) >= 1
  /\ DOMAIN boot.result.ci # {}
  /\ boot.result.nSkipped = boot.skipped

(* C8: when fewer than 10% of the requested resamples succeed, the result  *)
(* has no CI for any parameter while every point estimate is present and   *)
(* the page shows a dash for the interval; a result that has a CI has at   *)
(* least 10% successful resamples.                                         *)
C8_TooFewSamplesNoCi ==
  \A id \in DOMAIN objs :
    LET o == objs[id] IN
    o.nBoot > 0 =>
      /\ o.raw.nSuccess * 10 < o.nBoot =>
           /\ DOMAIN o.raw.ci = {}
           /\ DOMAIN o.ci = {}
           /\ DOMAIN o.params = ModelParamKeys(o.model)
           /\ \A key \in DOMAIN o.params : RenderCiPair(o, key) = <<"dash">>
      /\ DOMAIN o.ci # {} => o.raw.nSuccess * 10 >= o.nBoot

(* one successful resample of a hundred: an estimate and samples, no CI    *)
C8_Witness ==
  \E id \in DOMAIN objs :
    /\ objs[id].nBoot = 100
    /\ objs[id].raw.nSuccess = 1
    /\ DOMAIN objs[id].ci = {}
    /\ DOMAIN objs[id].samples # {}
    /\ IsFinite(objs[id].params["T"])

(* the successful estimates as a multiset: how many are below or at v      *)
CountBelow(v) == Cardinality({i \in BootSucceeded : RefitOutcome(boot, i) < v})
CountUpTo(v) == Cardinality({i \in BootSucceeded : RefitOutcome(boot, i) <= v})

(* the nearest-rank percentile of the multiset, defined by counting        *)
BagPercentile(p) ==
  LET rank == PercentileRank(Cardinality(BootSucceeded), p)
  IN CHOOSE v \in {RefitOutcome(boot, i) : i \in BootSucceeded} :
       CountBelow(v) < rank /\ rank <= CountUpTo(v)

(* C9: the reported interval is a function of the multiset of successful   *)
(* resample estimates alone: whatever the order in which the resamples     *)
(* completed, it is the pair of percentiles of that multiset.              *)
C9_CiOrderIndependent ==
  boot.pc = "done" =>
    \A key \in DOMAIN boot.result.ci :
      boot.result.ci[key] =
        <<BagPercentile((100 - boot.req.conf) \div 2),
          BagPercentile(100 - ((100 - boot.req.conf) \div 2))>>

(* resamples that completed in descending order of their estimates         *)
C9_Witness ==
  /\ boot.pc = "done"
  /\ boot.samples = <<2, 1>>
  /\ boot.req.conf = 50
  /\ "T" \in DOMAIN boot.result.ci
  /\ boot.result.ci["T"] = <<1, 2>>

(* C10: a point fit that does not converge is returned, not raised: every  *)
(* call ends as a result, an input or unknown-model error or a crash; a    *)
(* result of too few observations carries the failed status with NaN       *)
(* params and metrics and is stored like any other; and the handler's      *)
(* error path with a solver error follows a call that raised.              *)
C10_NonConvergenceIsAResult ==
  /\ \A i \in 1..Len(calls) :
       /\ calls[i].kind \in {"ok", "crash", "InputError", "UnknownModelError"}
       /\ (ValidInput(calls[i].req) /\ calls[i].req.model_name \in KnownModels
            /\ calls[i].kind # "ok") => calls[i].kind = "crash"
  /\ \A id \in DOMAIN objs :
       LET o == objs[id] IN
       /\ o.raw.status \in {"ok", "failed"}
       /\ Len(o.curves.observed) < MinObsToConverge => o.raw.status = "failed"
       /\ o.raw.status = "failed" =>
            /\ DOMAIN o.raw.params = ModelParamKeys(o.model)
            /\ \A key \in DOMAIN o.raw.params : o.raw.params[key] = NaN
            /\ o.raw.metrics.rmse = NaN /\ o.raw.metrics.r2 = NaN
  /\ (pc = "catch" /\ ctx.err = "PythonError") =>
       (calls # <<>> /\ calls[Len(calls)].kind = "crash")

(* the result of a fit that did not converge, stored in the history        *)
C10_Witness ==
  /\ pc = "timer"
  /\ ctx.resultId \in Range(fitHistory)
  /\ objs[ctx.resultId].raw.status = "failed"
  /\ objs[ctx.resultId].params["T"] = NaN
  /\ calls[1].kind = "ok"

(* C11: within one fit click the params the result object reports after    *)
(* the full bootstrap call are those it reported after the preceding       *)
(* n_boot = 0 call.                                                        *)
C11_SameParamsAfterBothCalls ==
  [][(pc = "timer" /\ pc' \in {"chart2", "finally"}) =>
       objs'[ctx.resultId].params = objs[ctx.resultId].params]_vars

(* C12: in every stored fit result the ci keys are a subset of the params  *)
(* keys, and a CI entry exists only if the bootstrap ran (nBoot > 0), the  *)
(* point fit succeeded, enough resamples succeeded and the solver returned *)
(* a CI for that key.                                                      *)
C12_CiOnlyForBootstrappedParams ==
  \A id \in StoredRefs :
    LET o == objs[id] IN
    /\ DOMAIN o.ci \subseteq DOMAIN o.params
    /\ DOMAIN o.ci # {} =>
         /\ o.nBoot > 0
         /\ o.raw.status = "ok"
         /\ o.raw.nSuccess * 10 >= o.nBoot
         /\ DOMAIN o.ci \subseteq DOMAIN o.raw.ci

(* a stored lagging result filtered with the theis metadata: the CI of the *)
(* dropped parameters is dropped with them                                 *)
C12_Witness ==
  \E id \in StoredRefs :
    /\ objs[id].model = "lagging"
    /\ objs[id].nBoot > 0
    /\ DOMAIN objs[id].raw.ci = {"T", "S", "tau_q", "tau_s"}
    /\ DOMAIN objs[id].params = {"T", "S"}
    /\ DOMAIN objs[id].ci = {"T", "S"}

ValidCells(raw, name) ==
  LET colT == ColumnOf(Head(raw), HdrTime)
      colS == ColumnOf(Head(raw), HdrDraw)
      col == ColumnOf(Head(raw), name)
      Num(row, c) == IF c <= Len(row) THEN ParseFloat(row[c]) ELSE NaN
      Kept(row) == /\ row[1] # ""
                   /\ IsFinite(Num(row, colT)) /\ IsFinite(Num(row, colS))
                   /\ IsFinite(Num(row, col))
      kept == SelectSeq(Tail(raw), Kept)
  IN [k \in 1..Len(kept) |-> Num(kept[k], col)]

(* the text has the time and drawdown columns, the named column and a      *)
(* valid data row with a finite cell in it                                 *)
HasColumnAndRow(raw, name) ==
  /\ raw # <<>>
  /\ {HdrTime, HdrDraw, name} \subseteq Range(Head(raw))
  /\ ValidCells(raw, name) # <<>>

(* C14: after a click, a finite radius (pumping-rate) field is the r (Q)   *)
(* the handler works with; a field that is not finite is replaced by the   *)
(* r_m (Q_m3ph) cell of the first valid data row that has a finite one,    *)
(* when the text has that column.                                          *)
C14_CsvColumnFillsMissingField ==
  pc # "idle" =>
    LET f == ctx.form IN
    /\ IsFinite(ParseFloat(f.r)) => ctx.r = ParseFloat(f.r)
    /\ IsFinite(ParseFloat(f.Q)) => ctx.Q = ParseFloat(f.Q)
    /\ ~IsFinite(ParseFloat(f.r)) /\ HasColumnAndRow(f.raw, HdrR) =>
         ctx.r = ValidCells(f.raw, HdrR)[1]
    /\ ~IsFinite(ParseFloat(f.Q)) /\ HasColumnAndRow(f.raw, HdrQ) =>
         ctx.Q = ValidCells(f.raw, HdrQ)[1]

C16_InputsUnchanged ==
  asm.pc # "idle" =>
    \A ref \in 1..Len(asm.given) : asm.mem[ref] = asm.given[ref]

(* both calls done, the second having filtered keys out of the solver's    *)
(* params and copied its samples into new objects                          *)
C16_Witness ==
  /\ asm.pc = "done"
  /\ asm.mem[asm.target].params > Len(asm.given)
  /\ DOMAIN asm.mem[asm.mem[asm.target].params] # DOMAIN asm.mem[FullRes.params]
  /\ DOMAIN asm.mem[asm.mem[asm.target].samples] # {}
  /\ asm.mem[asm.target].nBoot = 2

Placeholders == {<<"dash">>, <<"hyphen">>}

(* the labels of the entries of a metrics panel                            *)
Labels(entries) == {entries[i].label : i \in 1..Len(entries)}

(* C17: a value that is not a finite number (NaN, an infinity, null,       *)
(* undefined) is formatted as a placeholder by fmtExp, fmtDec and          *)
(* formatNumber, and renderMetrics has no RMSE or R2 entry for one; no     *)
(* entry it does show is a placeholder.                                    *)
C17_NonFiniteNeverShown ==
  /\ view.pc = "formatted" /\ ~IsFinite(view.value) =>
       {view.exp, view.dec, view.num} \subseteq Placeholders
  /\ view.pc = "metrics" =>
       /\ ~IsFinite(view.result.metrics.rmse) => "RMSE" \notin Labels(view.entries)
       /\ ~IsFinite(view.result.metrics.r2) => "R2" \notin Labels(view.entries)
       /\ \A i \in 1..Len(view.entries) : view.entries[i].value \notin Placeholders

(* a panel drawn for a result whose RMSE is NaN and whose R2 is finite     *)
C17_Witness ==
  /\ view.pc = "metrics"
  /\ view.result.metrics.rmse = NaN
  /\ view.result.metrics.r2 = 0
  /\ Labels(view.entries) = {"R2", "Confidence level", "Bootstrap samples", "Runtime"}

(* the sample indices among the first min(N, SampleCap) at which every     *)
(* sampled parameter has a value that is present and not NaN, N being the  *)
(* number of samples of the first sampled parameter                        *)
UsableIndices(baseFit) ==
  LET s == baseFit.samples
      keys == {k \in DOMAIN s : Len(s[k]) > 0}
      first == CHOOSE n \in 1..Len(KeyOrder) :
                 /\ KeyOrder[n] \in keys
                 /\ \A k \in 1..(n - 1) : KeyOrder[k] \notin keys
      N == Len(s[KeyOrder[first]])
  IN {i \in 1..(IF N < SampleCap THEN N ELSE SampleCap) :
        \A k \in keys : i <= Len(s[k]) /\ s[k][i] \notin {NaN, JsNull, JsUndefined}}

(* C18: for a fit with bootstrap samples and a fitted curve, with the      *)
(* runtime ready, the drawdown function is called once for each usable     *)
(* sample index and for no other, and one trace is returned for each       *)
(* sample whose curve was evaluated.                                       *)
C18_OneTracePerEvaluatedSample ==
  (/\ view.pc = "traces"
   /\ view.pyodideReady
   /\ view.baseFit.curves.fitted # <<>>
   /\ \E k \in DOMAIN view.baseFit.samples : Len(view.baseFit.samples[k]) > 0) =>
    LET out == view.out IN
    /\ {out.calls[n].index : n \in 1..Len(out.calls)} = UsableIndices(view.baseFit)
    /\ Len(out.calls) = Cardinality(UsableIndices(view.baseFit))
    /\ Len(out.traces) = Len(out.sampleCurves)

(* the arguments of a call other than n_boot (priors is null in both)      *)
SharedArgs(req) == <<req.times, req.draws, req.model_name, req.r, req.Q, req.conf>>

(* C19: a fit click calls fit_with_ci at most twice, first with n_boot = 0 *)
(* and then with the selected n_boot and otherwise the same arguments; the *)
(* second call is made only after the first returned a result that was     *)
(* recorded and whose chart was drawn: while that chart or the timer is    *)
(* pending there is one call.                                              *)
C19_TwoCallsInOrder ==
  /\ Len(calls) <= 2
  /\ calls # <<>> => calls[1].req.n_boot = 0
  /\ pc \in {"chart1", "timer"} => Len(calls) = 1 /\ calls[1].kind = "ok"
  /\ Len(calls) = 2 =>
       /\ calls[1].kind = "ok"
       /\ pc \in {"chart2", "catch", "finally"}
       /\ ctx.resultId # 0
       /\ calls[2].req.n_boot = ctx.nBoot
       /\ SharedArgs(calls[2].req) = SharedArgs(calls[1].req)

(* a second call with two resamples made while the history holds the       *)
(* result of the first, its chart drawn                                    *)
C19_Witness ==
  /\ Len(calls) = 2
  /\ calls[2].kind = "ok"
  /\ calls[2].req.n_boot = 2
  /\ calls[2].req.r = 3
  /\ pc = "chart2"
  /\ fitHistory = <<ctx.resultId>>

(* C20: at most one fit handler is in progress at any time: the button is  *)
(* disabled exactly while a handler is between its start and the end of    *)
(* its final block, so no click can start a second one, and it is enabled  *)
(* again only by the final block.                                          *)
C20_OneHandlerAtATime ==
  /\ [](fitBtnDisabled <=> pc # "idle")
  /\ [][fitBtnDisabled /\ ~fitBtnDisabled' => InHandlerExit /\ pc' = "idle"]_vars

(* a handler waiting for the deferred bootstrap call, the button disabled  *)
C20_Witness ==
  /\ pc = "timer"
  /\ fitBtnDisabled
  /\ Len(calls) = 1

(* C21: every fit click eventually finishes (given that what the handler   *)
(* awaits settles) with the fit button enabled again, the is-loading class *)
(* and the aria-busy attribute removed and the label the button had before *)
(* the click, whether the fit succeeded or failed at any step.             *)
FitBtnTexts ==
  {"Fit model", "Parsing data", "Initializing Python...", "Computing initial fit...",
   "Calculating confidence intervals...", "Processing results...", "Fit complete"}

C21_FitClickFinishesRestored ==
  \A l \in FitBtnTexts :
    (pc # "idle" /\ ctx.originalLabel = l)
      ~> /\ pc = "idle"
         /\ ~fitBtnDisabled
         /\ ~fitBtnLook.isLoading
         /\ ~fitBtnLook.ariaBusy
         /\ fitBtnLook.textContent = l

(* the page idle again after a click that failed before the runtime was    *)
(* ready, the button as it was before the click                            *)
C21_Witness ==
  /\ pc = "idle"
  /\ ~pyStatusReady
  /\ fitBtnLook.originalLabel = "Fit model"
  /\ fitBtnLook.textContent = "Fit model"
  /\ ~fitBtnLook.isLoading
  /\ ~fitBtnLook.ariaBusy
  /\ ~fitBtnDisabled

(* C22: a fit click adds at most one entry to fitHistory: the entry is     *)
(* pushed by the handler that has no result object yet, right after the    *)
(* quick phase, and the full phase changes that entry in place, leaving    *)
(* the list as it is; at all times the i-th entry has the run label Fit i. *)
C22_RunLabelsFollowPositions ==
  /\ [](\A i \in 1..Len(fitHistory) : objs[fitHistory[i]].runLabel = i)
  /\ [][fitHistory' # fitHistory /\ fitHistory' # <<>>
          => /\ ctx.resultId = 0
             /\ ctx'.resultId # 0
             /\ Len(calls') = 1
             /\ fitHistory' \in {Append(fitHistory, ctx'.resultId), <<ctx'.resultId>>}]_vars
  /\ [][pc = "timer" /\ pc' # "timer" => fitHistory' = fitHistory]_vars

(* a history of two results, the second one bootstrapped in place          *)
C22_Witness ==
  /\ Len(fitHistory) = 2
  /\ pc = "chart2"
  /\ fitHistory[2] = ctx.resultId
  /\ objs[fitHistory[2]].runLabel = 2
  /\ objs[fitHistory[2]].nBoot = 2

(* C23: all entries of fitHistory were fitted with the same model, the     *)
(* one held by lastModelSelection, under every interleaving of fit clicks, *)
(* model-selector changes and history clears.                              *)
C23_HistoryOfOneModel ==
  \A i \in 1..Len(fitHistory) :
    /\ objs[fitHistory[i]].model = lastModelSelection
    /\ fitHistory[i] = ctx.resultId
         => \A k \in 1..Len(calls) : calls[k].req.model_name = lastModelSelection

(* a result pushed by a handler that was running when the selector was     *)
(* changed to another model                                                *)
C23_Witness ==
  /\ Len(fitHistory) = 1
  /\ fitHistory[1] = ctx.resultId
  /\ pc = "timer"
  /\ modelSelectValue # lastModelSelection
  /\ objs[fitHistory[1]].model = lastModelSelection

(* C24: whenever the PDF button is enabled, window._lastFit is non-null    *)
(* and holds a result whose full bootstrap phase completed; the button is  *)
(* disabled from the start of every fit click, and only the successful end *)
(* of a handler enables it, so it stays disabled if the fit fails.         *)
C24_PdfEnabledOnlyWithFullResult ==
  /\ [](~pdfBtnDisabled => lastFit # 0 /\ objs[lastFit].nBoot # QuickNBoot)
  /\ [](pc \notin {"idle", "finally"} => pdfBtnDisabled)
  /\ [][pdfBtnDisabled /\ ~pdfBtnDisabled' => pc \in {"timer", "chart2"} /\ pc' = "finally"]_vars

(* C25: when renderModelDetails calls overlap, only the most recently      *)
(* started call updates currentModelMeta or the details panel (a call      *)
(* writes either in the step that starts it or in the step in which its    *)
(* fetch settles), and once the latest call has shown its model, no older  *)
(* call whose fetch completes or fails later changes what is shown.        *)
LatestRenderShown ==
  /\ \A p \in pendingRenders : p.token # modelDetailsRenderToken
  /\ currentModelMeta = MetaOf(modelSelectValue)
  /\ modelDetails = DetailsOf(modelSelectValue)

C25_OnlyLatestRenderWrites ==
  /\ [][currentModelMeta' # currentModelMeta \/ modelDetails' # modelDetails
          => \/ modelDetailsRenderToken' # modelDetailsRenderToken
             \/ \E p \in pendingRenders \ pendingRenders' :
                   p.token = modelDetailsRenderToken]_vars
  /\ [][(modelDetailsRenderToken' = modelDetailsRenderToken /\ LatestRenderShown)
          => (currentModelMeta' = currentModelMeta /\ modelDetails' = modelDetails)]_vars

(* C26: the fractured model cannot be fitted: the selector never rests on  *)
(* it (a choice of it is reverted within the change handler), a stored     *)
(* session naming it is restored as lagging, lastValidModelSelection is    *)
(* never fractured and fit_with_ci is never called with it (the markup not *)
(* starting on it).                                                        *)
C26_FracturedNeverFitted ==
  /\ modelSelectValue # "fractured"
  /\ lastValidModelSelection # "fractured"
  /\ lastModelSelection # "fractured"
  /\ \A k \in 1..Len(calls) : calls[k].req.model_name # "fractured"
  /\ \A x \in SessionControls, m \in MarkupControls :
       x.model = "fractured" => loadSession(saveSession(x), m).model = "lagging"

(* fractured was chosen while the first details render was pending: a      *)
(* second render of the same model was started, and a fit of the reverted  *)
(* selection has called the solver                                         *)
C26_Witness ==
  /\ \E p, q \in pendingRenders : p.token # q.token /\ p.modelId = q.modelId
  /\ Len(calls) = 1
  /\ calls[1].req.model_name = modelSelectValue

(* C29: saveSession followed by loadSession restores the radius, the       *)
(* pumping rate, the raw text, the confidence level, the bootstrap count   *)
(* and the model to the saved values, except that a saved model fractured  *)
(* is restored as lagging and that an empty saved conf, nBoot or model     *)
(* leaves that control as the markup set it.                               *)
C29_SessionRoundTrip ==
  (session.pc = "restored" /\ session.payload.present)
  => LET s == session.saved
         c == session.controls
         m == session.markup
     IN /\ c.r = s.r
        /\ c.Q = s.Q
        /\ c.raw = s.raw
        /\ c.conf = (IF s.conf = "" THEN m.conf ELSE s.conf)
        /\ c.nBoot = (IF s.nBoot = "" THEN m.nBoot ELSE s.nBoot)
        /\ c.model = (IF s.model = "" THEN m.model
                      ELSE IF s.model = "fractured" THEN "lagging" ELSE s.model)

(* a session saved with fractured selected, an empty bootstrap count and a *)
(* pasted text, restored on a page whose markup selects theis              *)
C29_Witness ==
  /\ session.pc = "restored"
  /\ session.payload.present
  /\ session.saved.model = "fractured"
  /\ session.saved.nBoot = ""
  /\ session.saved.raw = "text"
  /\ session.markup.model = "theis"
  /\ session.controls.model = "lagging"
  /\ session.controls.nBoot = "100"

(* C27: window._lastFit, when non-null, is one of the entries of           *)
(* fitHistory; in particular it is null whenever fitHistory is empty.      *)
C27_LastFitInHistory ==
  lastFit # 0 => lastFit \in Range(fitHistory)

(* C28: when renderChart calls overlap, the chart shown after all of them  *)
(* have settled is the one of the most recent call (its plot, or the       *)
(* message when it had no fit to render; a call whose newPlot was rejected *)
(* leaves the emptied element), no traces of an older call are ever added  *)
(* to the plot of another call, and after all calls have settled hasPlot   *)
(* is 1 when a plot is displayed and not 1 when the message is.            *)
ChartSettled == \A i \in 1..Len(chart.calls) : chart.calls[i].pc = "done"

C28_LatestChartShown ==
  /\ chart.shown.extra \subseteq {chart.shown.of}
  /\ (ChartSettled /\ chart.calls # <<>>)
       => /\ chart.shown.of = Len(chart.calls)
          /\ chart.calls[Len(chart.calls)].fits = "none" <=> chart.shown.kind = "message"
          /\ chart.shown.kind = "plot" => chart.hasPlot = "1"
          /\ chart.shown.kind = "message" => chart.hasPlot # "1"

(* C30: the Python runtime is initialised at most once per page:           *)
(* pyodideInstance, once set, stays set and is assigned by no later        *)
(* loadPyodide, solverLoaded never goes back to false, and loadPyodide and *)
(* the solver script are awaited only while the runtime, respectively the  *)
(* solver, is not yet loaded, so each completes successfully at most once. *)
C30_RuntimeInitialisedOnce ==
  /\ [][pyodideInstance => pyodideInstance']_vars
  /\ [][solverLoaded => solverLoaded']_vars
  /\ [](pc = "py_loadPyodide" => ~pyodideInstance)
  /\ [](pc \in {"py_fetchSolver", "py_runSolver"} => ~solverLoaded)
  /\ [](solverLoaded => pyodideInstance)

(* a second click after the packages failed to load: the runtime is kept   *)
(* and the handler goes on to fetch the solver                             *)
C30_Witness ==
  /\ pc = "py_fetchSolver"
  /\ pyodideInstance
  /\ ~packagesLoaded
  /\ ~solverLoaded

====
